---- MODULE Spec2Model ----
(***************************************************************************)
(* Model of the measurement harness: the two trackers                      *)
(* (test/idle/track_idle_pod.py, test/idle/track_vpa_pod.py), their        *)
(* kubectl wrapper and their CPU quantity parser.                          *)
(*                                                                         *)
(* Python strings are modelled as sequences of one-character strings, so   *)
(* that strip(), endswith(), split(), int() and float() are computed, not  *)
(* assumed.                                                                *)
(***************************************************************************)
EXTENDS Integers, Sequences, FiniteSets, TLC

VARIABLES
    \* command line (argparse), fixed for a run
    tracker,    \* "idle": track_idle_pod.py, "vpa": track_vpa_pod.py
    duration,   \* --duration
    interval,   \* --interval
    no_cleanup, \* --no-cleanup
    \* control
    pc,         \* the statement main() is at
    exc,        \* the exception the finally block will re-raise ("none")
    status,     \* the process's exit status ("running" until it ends)
    inflight,   \* a kubectl child process is running
    polls,      \* iterations done by the readiness wait in progress
    i,          \* the sampling loop's index
    \* data
    data,       \* the in-memory Run record
    cur,        \* what collect_sample / sample has read so far
    file,       \* the output file
    \* environment
    faults,     \* kubectl calls that did not answer nominally
    interrupts, \* SIGINTs delivered
    \* history
    lastOutcome,  \* how the last kubectl call ended
    fatalCause,   \* the outcome on which run_kubectl called sys.exit
    loopEnd,      \* how the sampling loop was left
    snap,         \* the samples held when the sampling loop was left
    waitExpired,  \* the readiness wait that expired
    intrPhase,    \* where the first SIGINT arrived
    teardownLog,  \* how each kubectl delete ended
    \* SpecParse
    input,      \* the string handed to the quantity parser
    result      \* what the parser did with it

(***************************************************************************)
(* Bounds of the model.                                                    *)
(***************************************************************************)
\* longest string handed to the parser in SpecParse
MaxLen == 4
\* largest quantity, in milli-units, written in both forms in SpecQuantity
MaxMilli == 1030
\* most samples in a monitor run in SpecAlign
MaxSamples == 4
\* most samples in a Run read by the analysis tools in SpecChanges
MaxRunLen == 4
\* largest --duration tried
MaxDuration == 2
\* kubectl calls of one run that may fail, time out or answer nothing
MaxFaults == 1
\* SIGINTs delivered to one run
MaxInterrupts == 1
\* polls a time-bounded readiness wait gets before its deadline passes
MaxPolls == 1

(***************************************************************************)
(* Python string primitives.                                               *)
(***************************************************************************)
Digits == {"0", "1", "2", "3", "4", "5", "6", "7", "8", "9"}

DigitVal(c) ==
    CASE c = "0" -> 0 [] c = "1" -> 1 [] c = "2" -> 2 [] c = "3" -> 3
      [] c = "4" -> 4 [] c = "5" -> 5 [] c = "6" -> 6 [] c = "7" -> 7
      [] c = "8" -> 8 [] c = "9" -> 9

\* str.strip(): whitespace removed at both ends
RECURSIVE LStrip(_)
LStrip(s) ==
    IF s # <<>> /\ Head(s) = " " THEN LStrip(Tail(s)) ELSE s

RECURSIVE RStrip(_)
RStrip(s) ==
    IF s # <<>> /\ s[Len(s)] = " " THEN RStrip(SubSeq(s, 1, Len(s) - 1)) ELSE s

Strip(s) == LStrip(RStrip(s))

\* str.endswith(c) for a one-character suffix
EndsWith(s, c) == s # <<>> /\ s[Len(s)] = c

\* the value of a non-empty run of decimal digits
RECURSIVE DecVal(_)
DecVal(ds) ==
    IF ds = <<>> THEN 0
    ELSE 10 * DecVal(SubSeq(ds, 1, Len(ds) - 1)) + DigitVal(ds[Len(ds)])

AllDigits(ds) == \A k \in 1..Len(ds) : ds[k] \in Digits

\* what a Python call does: return a value or raise
Returned(v) == [raised |-> FALSE, val |-> v]
Raised == [raised |-> TRUE, val |-> 0]

\* a leading sign, as int() and float() accept it
Signed(t) == t # <<>> /\ t[1] \in {"-", "+"}
Unsigned(t) == IF Signed(t) THEN Tail(t) ELSE t
SignOf(t) == IF t # <<>> /\ t[1] = "-" THEN -1 ELSE 1

\* int(str): surrounding whitespace, an optional sign, then one or more
\* digits; anything else raises ValueError.  (The "_" digit separator is not
\* in the model's alphabet.)
PyInt(s) ==
    LET t == Strip(s)
        body == Unsigned(t)
    IN  IF body # <<>> /\ AllDigits(body)
        THEN Returned(SignOf(t) * DecVal(body))
        ELSE Raised

\* position of the first "." of s, or 0
RECURSIVE DotAt(_, _)
DotAt(s, k) ==
    IF k > Len(s) THEN 0 ELSE IF s[k] = "." THEN k ELSE DotAt(s, k + 1)

\* the first three fractional digits as thousandths, the rest dropped
Thousandths(fp) ==
    LET d(k) == IF k <= Len(fp) THEN DigitVal(fp[k]) ELSE 0
    IN  100 * d(1) + 10 * d(2) + d(3)

\* float(v) * 1000 is computed in binary floating point: for these exact
\* decimals the nearest double times 1000 rounds to just below the integer,
\* so int() truncates to one less (1.001 * 1000 = 1000.9999999999999).  The
\* table is CPython's result for every n / 1000 with n < 2048, and for every
\* decimal of at most MaxLen + 1 characters over the digits of Alphabet.
LossyThousandths ==
    {1001, 1003, 1005, 1007, 1009, 1011, 1013, 1015, 1017, 1019, 1021, 1023,
     2002, 2006, 2010, 2014, 2018, 2022, 2026, 2030, 2034, 2038, 2042, 2046}

DoubleProductLoss(n, exact) ==
    IF exact /\ n \in LossyThousandths THEN 1 ELSE 0

\* int(float(v) * 1000): float() accepts surrounding whitespace, an optional
\* sign and digits with at most one ".", at least one digit in all; anything
\* else raises ValueError.  int() rounds toward zero.  (Exponents, "inf",
\* "nan" and "_" are not in the model's alphabet.)
PyFloatTimes1000(s) ==
    LET t == Strip(s)
        body == Unsigned(t)
        dot == DotAt(body, 1)
        ip == IF dot = 0 THEN body ELSE SubSeq(body, 1, dot - 1)
        fp == IF dot = 0 THEN <<>> ELSE SubSeq(body, dot + 1, Len(body))
        n == 1000 * DecVal(ip) + Thousandths(fp)
        exact == \A k \in 4..Len(fp) : fp[k] = "0"
    IN  IF AllDigits(ip) /\ AllDigits(fp) /\ Len(ip) + Len(fp) >= 1
        THEN Returned(SignOf(t) * (n - DoubleProductLoss(n, exact)))
        ELSE Raised

NA == <<"N", "/", "A">>

(***************************************************************************)
(* The quantity parser.                                                    *)
(***************************************************************************)
\* track_idle_pod.py: parse_cpu_to_milli.  int(cpu[:-1]) is outside the try,
\* so its ValueError leaves the function; the float() branch is inside.
parse_cpu_to_milli(cpu) ==
    IF cpu = <<>> \/ cpu = NA THEN Returned(0)
    ELSE LET c == Strip(cpu)
         IN  IF EndsWith(c, "m")
             THEN PyInt(SubSeq(c, 1, Len(c) - 1))
             ELSE LET f == PyFloatTimes1000(c)
                  IN  IF f.raised THEN Returned(0) ELSE f

\* track_vpa_pod.py: parse_cpu, the same rules with a bare except
parse_cpu(v) ==
    IF v = <<>> \/ v = NA THEN Returned(0)
    ELSE LET c == Strip(v)
         IN  IF EndsWith(c, "m")
             THEN PyInt(SubSeq(c, 1, Len(c) - 1))
             ELSE LET f == PyFloatTimes1000(c)
                  IN  IF f.raised THEN Returned(0) ELSE f

(***************************************************************************)
(* The trackers: command line, kubectl and its answers.                    *)
(***************************************************************************)
argsV == <<tracker, duration, interval, no_cleanup>>
flowV == <<pc, exc, status, loopEnd, snap>>
callV == <<inflight, faults, lastOutcome, fatalCause>>
storeV == <<data, cur, file, i>>
intrV == <<interrupts, intrPhase>>
parseV == <<input, result>>
trackerV ==
    <<argsV, flowV, callV, storeV, intrV, polls, waitExpired, teardownLog>>

vars == <<trackerV, parseV>>

\* --duration and --interval are type=int: any integer is accepted
Durations == -2..MaxDuration
Intervals == {-1, 0, 1, 2}

\* for _ in range(30) in create_deployment
PodPollAttempts == 30

\* Python's //: the floor of the quotient, for either sign of the divisor
FloorDiv(a, b) ==
    IF b > 0 THEN a \div b ELSE (-a) \div (-b)

\* the statements of main() at which run_kubectl is called
ProvisioningSites ==
    {"check_cluster", "check_metrics_server", "wait_for_metrics", "check_vpa",
     "create_namespace_gen", "create_namespace_apply", "create_namespace_label",
     "create_pod_apply", "create_pod_wait",
     "create_deployment_apply", "pod_poll", "create_deployment_wait",
     "create_vpa", "wait_for_vpa"}
SamplingSites ==
    {"get_resources_req", "get_resources_lim", "get_usage",
     "get_pa_chk", "get_pa_request", "get_pa_limit", "get_pa_status",
     "get_pa_shadow",
     "get_vpa_chk", "get_vpa_mode", "get_vpa_target", "get_vpa_lower",
     "get_vpa_upper"}
TeardownSites ==
    {"cleanup_pod", "cleanup_ns",
     "delete_vpa", "delete_deployment", "delete_namespace"}
CallSites == ProvisioningSites \cup SamplingSites \cup TeardownSites

\* the loops bounded by time.time() - start < timeout
DeadlineSites == {"wait_for_metrics", "wait_for_vpa"}

\* the statements of the sampling loop
LoopSites == SamplingSites \cup {"loop", "append", "sleep"}

\* mutant: the try statement ends before time.sleep
TrySitesWithoutSleep == LoopSites \ {"sleep"}

\* the statements inside main()'s try block: the whole loop
TrySites == LoopSites

Phase(p) ==
    CASE p \in ProvisioningSites \cup {"setup"} -> "provisioning"
      [] p \in LoopSites -> "sampling"
      [] p = "persist" -> "persist"
      [] p \in TeardownSites -> "teardown"
      [] OTHER -> "exited"

\* what subprocess.run does with the child: it completes with an exit code
\* and its standard output, runs into the timeout, or cannot be spawned
Completed(rc, out) == [kind |-> "completed", rc |-> rc, out |-> out]
TimedOut == [kind |-> "timeout", rc |-> 0, out |-> <<>>]
SpawnError == [kind |-> "spawn_error", rc |-> 0, out |-> <<>>]

\* the standard output of a kubectl call that finds what it asks for
NominalOut(site) ==
    CASE site = "get_resources_req" -> <<"5", "0", "0", "m">>
      [] site = "get_resources_lim" -> <<"1">>
      [] site = "get_usage" -> <<"p", " ", "1", "m", " ", "5", "M">>
      [] site = "get_pa_request" -> <<"1", "0", "0", "m">>
      [] site = "get_pa_limit" -> <<"0", ".", "5">>
      [] site = "get_pa_status" -> <<"O", "K">>
      [] site = "get_pa_shadow" -> <<"0", ".", "1">>
      [] site = "get_vpa_mode" -> <<"O", "f", "f">>
      [] site = "get_vpa_target" -> <<"2", "5", "m">>
      [] site = "get_vpa_lower" -> <<"1", "0", "m">>
      [] site = "get_vpa_upper" -> <<"1">>
      [] site = "wait_for_vpa" -> <<"{", "t", "}">>
      [] OTHER -> <<"o", "k">>

Nominal(site) == Completed(0, NominalOut(site))

\* the answers with which a readiness poll goes round again
NotReady(site) ==
    CASE site = "wait_for_metrics" -> {Completed(1, <<>>)}
      [] site = "pod_poll" -> {Completed(0, <<>>)}
      [] site = "wait_for_vpa" -> {Completed(0, <<>>), Completed(0, <<"{", "}">>)}
      [] OTHER -> {}

\* the answers of a control plane that fails
Faulty == {Completed(0, <<>>), Completed(1, <<>>), TimedOut, SpawnError}

IsFault(site, o) == o \notin ({Nominal(site)} \cup NotReady(site))

Env(site) ==
    {Nominal(site)} \cup NotReady(site)
        \cup (IF faults < MaxFaults THEN Faulty ELSE {})

Cause(o) ==
    IF o.kind = "completed"
    THEN (IF o.rc = 0 THEN "zero" ELSE "nonzero")
    ELSE o.kind

\* mutant: subprocess.run(..., check=True), a non-zero exit code is an error
run_kubectl_check(o) ==
    IF o.kind = "completed" /\ o.rc = 0
    THEN [exit |-> FALSE, returncode |-> o.rc, stdout |-> o.out]
    ELSE [exit |-> TRUE, returncode |-> 1, stdout |-> <<>>]

(***************************************************************************)
(* run_kubectl: the result for any exit code, sys.exit(1) on timeout or    *)
(* on any other exception of subprocess.run.                               *)
(***************************************************************************)
run_kubectl(o) ==
    IF o.kind = "completed"
    THEN [exit |-> FALSE, returncode |-> o.rc, stdout |-> o.out]
    ELSE [exit |-> TRUE, returncode |-> 1, stdout |-> <<>>]

(***************************************************************************)
(* Exceptions.  main()'s try statement covers the sampling loop only; the   *)
(* idle tracker has an except KeyboardInterrupt clause, the VPA tracker    *)
(* has none; both have the finally block that writes the file.             *)
(***************************************************************************)
Caught(t, e) == t = "idle" /\ e = "KeyboardInterrupt"

\* the interpreter's exit status for the exception that leaves main():
\* sys.exit(1) and a traceback give 1, an unhandled KeyboardInterrupt ends
\* the process by SIGINT
ExitCode(e) ==
    CASE e = "none" -> "0"
      [] e = "KeyboardInterrupt" -> "SIGINT"
      [] OTHER -> "1"

LoopEndOf(e) ==
    CASE e = "KeyboardInterrupt" -> "interrupted"
      [] e = "SystemExit" -> "fatal"
      [] OTHER -> "error"

Samples == IF "samples" \in DOMAIN data THEN data.samples ELSE <<>>

Goto(p) ==
    /\ pc' = p
    /\ UNCHANGED <<exc, status, loopEnd, snap>>

\* mutant: the file is written at the end of the try body, not in finally
OnExceptionSkipsWrite(p) ==
    IF p \in TrySites
    THEN (IF tracker = "idle" THEN "cleanup_pod" ELSE "delete_vpa")
    ELSE "exited"

\* mutant: the loop is not in a try statement at all
OnExceptionNoFinally(p) == "exited"

\* where control goes when an exception leaves statement p: to the finally
\* block if p is inside the try statement, out of main() otherwise
OnException(p) == IF p \in TrySites THEN "persist" ELSE "exited"

\* exception e is raised at the current statement
Raise(e) ==
    /\ pc' = OnException(pc)
    /\ IF OnException(pc) = "exited"
       THEN exc' = e /\ status' = ExitCode(e)
       ELSE exc' = (IF Caught(tracker, e) THEN "none" ELSE e)
            /\ UNCHANGED status
    /\ IF pc \in LoopSites
       THEN loopEnd' = LoopEndOf(e) /\ snap' = Samples
       ELSE UNCHANGED <<loopEnd, snap>>

\* main() returns, or the finally block ends and re-raises what is pending
Leave ==
    /\ pc' = "exited"
    /\ status' = ExitCode(exc)
    /\ UNCHANGED <<exc, loopEnd, snap>>

\* the record collect_sample / sample is filling
BaseRec(t) ==
    IF t = "idle"
    THEN [request |-> NA, limit |-> NA, status |-> NA, shadow |-> NA]
    ELSE [target |-> NA, lower |-> NA, upper |-> NA, mode |-> NA]

NoCur(t) ==
    [elapsed |-> 0, req |-> NA, lim |-> NA, use |-> NA, chk |-> "none",
     rec |-> BaseRec(t)]

NoFile == [state |-> "absent", doc |-> <<>>]

Init ==
    /\ tracker \in {"idle", "vpa"}
    /\ duration \in Durations
    /\ interval \in Intervals
    /\ no_cleanup \in BOOLEAN
    /\ pc = "check_cluster" /\ exc = "none" /\ status = "running"
    /\ inflight = FALSE /\ polls = 0 /\ i = 0
    /\ data = <<>>
    /\ cur = NoCur(tracker)
    /\ file = NoFile
    /\ faults = 0 /\ interrupts = 0
    /\ lastOutcome = "none" /\ fatalCause = "none" /\ loopEnd = "none"
    /\ snap = <<>> /\ waitExpired = "none" /\ intrPhase = "none"
    /\ teardownLog = <<>>
    /\ input = <<>> /\ result = [fn |-> "none", raised |-> FALSE, val |-> 0]

\* subprocess.run starts the child
StartCall ==
    /\ pc \in CallSites
    /\ ~inflight
    /\ pc \in DeadlineSites => polls < MaxPolls
    /\ pc = "pod_poll" => polls < PodPollAttempts
    /\ inflight' = TRUE
    /\ UNCHANGED <<argsV, flowV, faults, lastOutcome, fatalCause, storeV,
                   intrV, polls, waitExpired, teardownLog, parseV>>

\* the child started at `site` ends with outcome o
Resolved(site, o) ==
    /\ pc = site
    /\ inflight
    /\ o \in Env(site)
    /\ inflight' = FALSE
    /\ faults' = IF IsFault(site, o) THEN faults + 1 ELSE faults
    /\ lastOutcome' = Cause(o)
    /\ fatalCause' =
          IF run_kubectl(o).exit /\ fatalCause = "none"
          THEN Cause(o) ELSE fatalCause

\* mutant: a non-zero exit code makes the tool run the command again
CheckedRetries(site, next) ==
    \E o \in Env(site) :
        /\ Resolved(site, o)
        /\ LET r == run_kubectl(o)
           IN  IF r.exit THEN Raise("SystemExit")
               ELSE IF r.returncode # 0 THEN Goto(site) ELSE Goto(next)

\* r = run_kubectl(...); if r.returncode != 0: sys.exit(1)
Checked(site, next) ==
    \E o \in Env(site) :
        /\ Resolved(site, o)
        /\ LET r == run_kubectl(o)
           IN  IF r.exit \/ r.returncode # 0
               THEN Raise("SystemExit") ELSE Goto(next)

\* run_kubectl(...) with the result ignored
Unchecked(site, next) ==
    \E o \in Env(site) :
        /\ Resolved(site, o)
        /\ IF run_kubectl(o).exit THEN Raise("SystemExit") ELSE Goto(next)

restV == <<argsV, storeV, intrV, polls, waitExpired, teardownLog, parseV>>

check_cluster ==
    /\ Checked("check_cluster",
               IF tracker = "idle" THEN "check_metrics_server"
               ELSE "wait_for_metrics")
    /\ UNCHANGED restV

check_metrics_server ==
    /\ Checked("check_metrics_server", "create_namespace_gen")
    /\ UNCHANGED restV

\* while time.time() - start < timeout: poll, sleep(5); then sys.exit(1)
wait_for_metrics ==
    \/ \E o \in Env("wait_for_metrics") :
          /\ Resolved("wait_for_metrics", o)
          /\ LET r == run_kubectl(o)
             IN  IF r.exit THEN Raise("SystemExit") /\ UNCHANGED polls
                 ELSE IF r.returncode = 0
                      THEN Goto("check_vpa") /\ polls' = 0
                      ELSE Goto("wait_for_metrics") /\ polls' = polls + 1
          /\ UNCHANGED <<argsV, storeV, intrV, waitExpired, teardownLog, parseV>>
    \/ /\ pc = "wait_for_metrics" /\ ~inflight /\ polls >= 1
       /\ waitExpired' = "metrics"
       /\ Raise("SystemExit")
       /\ UNCHANGED <<argsV, callV, storeV, intrV, polls, teardownLog, parseV>>

check_vpa ==
    /\ Checked("check_vpa", "create_namespace_gen")
    /\ UNCHANGED restV

\* the idle tracker also labels the namespace, and ignores the result
create_namespace ==
    /\ \/ Checked("create_namespace_gen", "create_namespace_apply")
       \/ Checked("create_namespace_apply",
                  IF tracker = "idle" THEN "create_namespace_label"
                  ELSE "create_deployment_apply")
       \/ Unchecked("create_namespace_label", "create_pod_apply")
    /\ UNCHANGED restV

\* kubectl wait --timeout=90s exits non-zero when the pod is not Ready in time
ReadyWait(site, next) ==
    \E o \in Env(site) :
        /\ Resolved(site, o)
        /\ LET r == run_kubectl(o)
           IN  IF r.exit THEN Raise("SystemExit") /\ UNCHANGED waitExpired
               ELSE IF r.returncode # 0
                    THEN Raise("SystemExit") /\ waitExpired' = "pod_ready"
                    ELSE Goto(next) /\ UNCHANGED waitExpired

create_pod ==
    \/ Checked("create_pod_apply", "create_pod_wait") /\ UNCHANGED restV
    \/ /\ ReadyWait("create_pod_wait", "setup")
       /\ UNCHANGED <<argsV, storeV, intrV, polls, teardownLog, parseV>>

create_deployment ==
    \/ Checked("create_deployment_apply", "pod_poll") /\ UNCHANGED restV
    \/ \E o \in Env("pod_poll") :
          /\ Resolved("pod_poll", o)
          /\ LET p == run_kubectl(o)
             IN  IF p.exit THEN Raise("SystemExit") /\ UNCHANGED polls
                 ELSE IF p.stdout # <<>>
                      THEN Goto("create_deployment_wait") /\ polls' = 0
                      ELSE Goto("pod_poll") /\ polls' = polls + 1
          /\ UNCHANGED <<argsV, storeV, intrV, waitExpired, teardownLog, parseV>>
    \/ /\ pc = "pod_poll" /\ ~inflight /\ polls = PodPollAttempts
       /\ waitExpired' = "pod_created"
       /\ Raise("SystemExit")
       /\ UNCHANGED <<argsV, callV, storeV, intrV, polls, teardownLog, parseV>>
    \/ /\ ReadyWait("create_deployment_wait", "create_vpa")
       /\ UNCHANGED <<argsV, storeV, intrV, polls, teardownLog, parseV>>

create_vpa ==
    /\ Checked("create_vpa", "wait_for_vpa")
    /\ UNCHANGED restV

\* while time.time() - start < timeout: poll, sleep(10); on expiry it prints
\* "VPA recommendation timeout" and returns
wait_for_vpa ==
    \/ \E o \in Env("wait_for_vpa") :
          /\ Resolved("wait_for_vpa", o)
          /\ LET r == run_kubectl(o)
             IN  IF r.exit THEN Raise("SystemExit") /\ UNCHANGED polls
                 ELSE IF r.stdout # <<>> /\ r.stdout # <<"{", "}">>
                      THEN Goto("setup") /\ polls' = 0
                      ELSE Goto("wait_for_vpa") /\ polls' = polls + 1
          /\ UNCHANGED <<argsV, storeV, intrV, waitExpired, teardownLog, parseV>>
    \/ /\ pc = "wait_for_vpa" /\ ~inflight /\ polls >= 1
       /\ waitExpired' = "vpa_recommendation"
       /\ Goto("setup")
       /\ UNCHANGED <<argsV, callV, storeV, intrV, polls, teardownLog, parseV>>

(***************************************************************************)
(* Sampling.                                                               *)
(***************************************************************************)
InitialData(t) ==
    IF t = "idle"
    THEN [start |-> "t", namespace |-> "ns", pod |-> "pod", samples |-> <<>>]
    ELSE [start |-> "t", samples |-> <<>>]

\* mutant: range(iterations + 1)
IterationsInclusive == FloorDiv(duration, interval) + 1

\* iterations = args.duration // args.interval
Iterations == FloorDiv(duration, interval)

\* mutant: elapsed = i * args.interval
ElapsedFromZero(k) == k * interval

\* elapsed = (i + 1) * args.interval
Elapsed(k) == (k + 1) * interval

\* x.strip() or "N/A"
OrNA(out) == IF Strip(out) = <<>> THEN NA ELSE Strip(out)

\* str.split(): the maximal runs of non-blank characters
RECURSIVE SpaceAt(_, _)
SpaceAt(s, k) ==
    IF k > Len(s) \/ s[k] = " " THEN k ELSE SpaceAt(s, k + 1)

RECURSIVE Split(_)
Split(s) ==
    LET t == LStrip(s)
    IN  IF t = <<>> THEN <<>>
        ELSE LET n == SpaceAt(t, 1)
             IN  <<SubSeq(t, 1, n - 1)>> \o Split(SubSeq(t, n, Len(t)))

\* data init and the iteration count; interval = 0 raises ZeroDivisionError
\* before the try statement is entered
Setup ==
    /\ pc = "setup"
    /\ data' = InitialData(tracker)
    /\ i' = 0
    /\ IF interval = 0 THEN Raise("ZeroDivisionError") ELSE Goto("loop")
    /\ UNCHANGED <<argsV, callV, cur, file, intrV, polls, waitExpired,
                   teardownLog, parseV>>

\* for i in range(iterations): the next iteration, or the end of the loop
LoopHead ==
    /\ pc = "loop"
    /\ IF i < Iterations
       THEN /\ cur' = [NoCur(tracker) EXCEPT !.elapsed = Elapsed(i)]
            /\ Goto("get_resources_req")
       ELSE /\ pc' = "persist"
            /\ loopEnd' = "completed"
            /\ snap' = Samples
            /\ UNCHANGED <<cur, exc, status>>
    /\ UNCHANGED <<argsV, callV, data, file, i, intrV, polls, waitExpired,
                   teardownLog, parseV>>

sampleRestV ==
    <<argsV, data, file, i, intrV, polls, waitExpired, teardownLog, parseV>>

\* the field set in the record being filled
SetField(c, field, v) ==
    IF field \in {"req", "lim", "use"}
    THEN [c EXCEPT ![field] = v]
    ELSE [c EXCEPT !.rec[field] = v]

\* one jsonpath query whose output, stripped, or "N/A" goes to a field
Query(site, next, field) ==
    \E o \in Env(site) :
        /\ Resolved(site, o)
        /\ LET r == run_kubectl(o)
           IN  IF r.exit
               THEN Raise("SystemExit") /\ UNCHANGED cur
               ELSE Goto(next) /\ cur' = SetField(cur, field, OrNA(r.stdout))
        /\ UNCHANGED sampleRestV

get_resources ==
    \/ Query("get_resources_req", "get_resources_lim", "req")
    \/ Query("get_resources_lim", "get_usage", "lim")

\* kubectl top pod: the second column, or "N/A"
get_usage ==
    \E o \in Env("get_usage") :
        /\ Resolved("get_usage", o)
        /\ LET r == run_kubectl(o)
               next == IF tracker = "idle" THEN "get_pa_chk" ELSE "get_vpa_chk"
           IN  IF r.exit
               THEN Raise("SystemExit") /\ UNCHANGED cur
               ELSE IF r.returncode = 0 /\ r.stdout # <<>>
                    THEN IF Len(Split(r.stdout)) >= 2
                         THEN Goto(next)
                              /\ cur' = [cur EXCEPT !.use = Split(r.stdout)[2]]
                         ELSE Raise("IndexError") /\ UNCHANGED cur
                    ELSE Goto(next) /\ cur' = [cur EXCEPT !.use = NA]
        /\ UNCHANGED sampleRestV

\* the existence probe: a non-zero exit code returns the all-"N/A" record
Probe(site, next) ==
    \E o \in Env(site) :
        /\ Resolved(site, o)
        /\ LET r == run_kubectl(o)
           IN  IF r.exit
               THEN Raise("SystemExit") /\ UNCHANGED cur
               ELSE IF r.returncode # 0
                    THEN Goto("append")
                         /\ cur' = [cur EXCEPT !.chk = "nonzero",
                                               !.rec = BaseRec(tracker)]
                    ELSE Goto(next)
                         /\ cur' = [cur EXCEPT !.chk = "zero",
                                               !.rec = BaseRec(tracker)]
        /\ UNCHANGED sampleRestV

get_podallocation ==
    \/ Probe("get_pa_chk", "get_pa_request")
    \/ Query("get_pa_request", "get_pa_limit", "request")
    \/ Query("get_pa_limit", "get_pa_status", "limit")
    \/ Query("get_pa_status", "get_pa_shadow", "status")
    \/ Query("get_pa_shadow", "append", "shadow")

get_vpa ==
    \/ Probe("get_vpa_chk", "get_vpa_mode")
    \/ Query("get_vpa_mode", "get_vpa_target", "mode")
    \/ Query("get_vpa_target", "get_vpa_lower", "target")
    \/ Query("get_vpa_lower", "get_vpa_upper", "lower")
    \/ Query("get_vpa_upper", "append", "upper")

\* mutant: limit_m is parsed from the request string
collect_sample_limit_from_request(c) ==
    [timestamp |-> "t", elapsed |-> c.elapsed,
     request |-> c.req, limit |-> c.lim, usage |-> c.use,
     request_m |-> parse_cpu_to_milli(c.req).val,
     limit_m |-> parse_cpu_to_milli(c.req).val,
     usage_m |-> parse_cpu_to_milli(c.use).val,
     pa_request |-> c.rec.request, pa_limit |-> c.rec.limit,
     pa_status |-> c.rec.status, shadow_price |-> c.rec.shadow]

\* the dict collect_sample returns (its wall-clock timestamp is "t")
collect_sample(c) ==
    [timestamp |-> "t", elapsed |-> c.elapsed,
     request |-> c.req, limit |-> c.lim, usage |-> c.use,
     request_m |-> parse_cpu_to_milli(c.req).val,
     limit_m |-> parse_cpu_to_milli(c.lim).val,
     usage_m |-> parse_cpu_to_milli(c.use).val,
     pa_request |-> c.rec.request, pa_limit |-> c.rec.limit,
     pa_status |-> c.rec.status, shadow_price |-> c.rec.shadow]

\* the dict sample returns
sample(c) ==
    [time |-> c.elapsed,
     req |-> c.req, lim |-> c.lim, use |-> c.use,
     req_m |-> parse_cpu(c.req).val,
     lim_m |-> parse_cpu(c.lim).val,
     use_m |-> parse_cpu(c.use).val,
     vpa_target |-> c.rec.target, vpa_lower |-> c.rec.lower,
     vpa_upper |-> c.rec.upper, mode |-> c.rec.mode]

ParseRaises(c) ==
    IF tracker = "idle"
    THEN \E v \in {c.req, c.lim, c.use} : parse_cpu_to_milli(v).raised
    ELSE \E v \in {c.req, c.lim, c.use} : parse_cpu(v).raised

\* mutant: the loop sleeps after every iteration
SleepsAfterEvery(k) == TRUE

\* if i < iterations - 1: time.sleep(args.interval)
SleepsAfter(k) == k < Iterations - 1

\* the sample is built and appended; the loop sleeps unless this was the
\* last iteration
AppendSample ==
    /\ pc = "append"
    /\ IF ParseRaises(cur)
       THEN Raise("ValueError") /\ UNCHANGED <<data, i>>
       ELSE /\ data' = [data EXCEPT !.samples =
                          Append(@, IF tracker = "idle"
                                    THEN collect_sample(cur) ELSE sample(cur))]
            /\ IF SleepsAfter(i)
               THEN Goto("sleep") /\ UNCHANGED i
               ELSE Goto("loop") /\ i' = i + 1
    /\ UNCHANGED <<argsV, callV, cur, file, intrV, polls, waitExpired,
                   teardownLog, parseV>>

\* time.sleep(args.interval): a negative length raises ValueError
Sleep ==
    /\ pc = "sleep"
    /\ IF interval < 0
       THEN Raise("ValueError") /\ UNCHANGED i
       ELSE Goto("loop") /\ i' = i + 1
    /\ UNCHANGED <<argsV, callV, data, cur, file, intrV, polls, waitExpired,
                   teardownLog, parseV>>

(***************************************************************************)
(* The finally block: the end timestamp, the file, then the cleanup.       *)
(***************************************************************************)
\* data["end"] = ...
WithEnd(d) ==
    [k \in DOMAIN d \cup {"end"} |-> IF k = "end" THEN "t" ELSE d[k]]

\* json.dump(data, f): the file holds the record
Dump(d) == [state |-> "complete", doc |-> d]

FirstTeardown(t) == IF t = "idle" THEN "cleanup_pod" ELSE "delete_vpa"

Persist ==
    /\ pc = "persist"
    /\ data' = WithEnd(data)
    /\ file' = Dump(data')
    /\ IF no_cleanup THEN Leave ELSE Goto(FirstTeardown(tracker))
    /\ UNCHANGED <<argsV, callV, cur, i, intrV, polls, waitExpired,
                   teardownLog, parseV>>

\* one kubectl delete, its result ignored
Delete(site, next) ==
    \E o \in Env(site) :
        /\ Resolved(site, o)
        /\ teardownLog' = Append(teardownLog, Cause(o))
        /\ IF run_kubectl(o).exit THEN Raise("SystemExit")
           ELSE IF next = "exited" THEN Leave ELSE Goto(next)
        /\ UNCHANGED <<argsV, storeV, intrV, polls, waitExpired, parseV>>

\* track_idle_pod.py: cleanup
cleanup ==
    \/ Delete("cleanup_pod", "cleanup_ns")
    \/ Delete("cleanup_ns", "exited")

\* track_vpa_pod.py: the three deletes at the end of main
delete_fixture ==
    \/ Delete("delete_vpa", "delete_deployment")
    \/ Delete("delete_deployment", "delete_namespace")
    \/ Delete("delete_namespace", "exited")

(***************************************************************************)
(* SIGINT: Python raises KeyboardInterrupt at the statement being run.     *)
(* run_kubectl catches Exception, which KeyboardInterrupt is not, so a     *)
(* call in flight is abandoned (subprocess.run kills the child).           *)
(***************************************************************************)
\* mutant: a bare except in run_kubectl turns the interrupt into sys.exit(1)
InterruptRaisesSystemExit(calling) ==
    IF calling THEN "SystemExit" ELSE "KeyboardInterrupt"

\* run_kubectl's handlers are except TimeoutExpired and except Exception:
\* the KeyboardInterrupt raised in a call in flight passes through them
InterruptRaises(calling) == "KeyboardInterrupt"

Interrupt ==
    /\ pc # "exited"
    /\ interrupts < MaxInterrupts
    /\ interrupts' = interrupts + 1
    /\ intrPhase' = IF intrPhase = "none" THEN Phase(pc) ELSE intrPhase
    /\ inflight' = FALSE
    /\ lastOutcome' = IF inflight THEN "interrupted" ELSE lastOutcome
    /\ teardownLog' = IF inflight /\ pc \in TeardownSites
                      THEN Append(teardownLog, "interrupted") ELSE teardownLog
    /\ Raise(InterruptRaises(inflight))
    /\ IF pc = "persist"
       THEN file' \in {file, [state |-> "partial", doc |-> <<>>]}
       ELSE UNCHANGED file
    /\ UNCHANGED <<argsV, faults, fatalCause, data, cur, i, polls,
                   waitExpired, parseV>>

Next ==
    \/ StartCall
    \/ check_cluster
    \/ check_metrics_server
    \/ wait_for_metrics
    \/ check_vpa
    \/ create_namespace
    \/ create_pod
    \/ create_deployment
    \/ create_vpa
    \/ wait_for_vpa
    \/ Setup
    \/ LoopHead
    \/ get_resources
    \/ get_usage
    \/ get_podallocation
    \/ get_vpa
    \/ AppendSample
    \/ Sleep
    \/ Persist
    \/ cleanup
    \/ delete_fixture
    \/ Interrupt

Spec == Init /\ [][Next]_vars

(***************************************************************************)
(* Properties of the trackers (specification Spec).                        *)
(***************************************************************************)
Max(a, b) == IF a >= b THEN a ELSE b

Persisted == file.state = "complete"

\* a kubectl delete has been issued
TeardownIssued ==
    \/ pc \in TeardownSites /\ inflight
    \/ teardownLog # <<>>

\* the elapsed value a Sample carries
ElapsedOf(s) == IF tracker = "idle" THEN s.elapsed ELSE s.time

\* elapsed values interval, 2 * interval, ..., strictly increasing
ArithmeticElapsed(ss) ==
    /\ \A n \in 1..Len(ss) : ElapsedOf(ss[n]) = n * interval
    /\ \A n \in 1..(Len(ss) - 1) : ElapsedOf(ss[n]) < ElapsedOf(ss[n + 1])

\* C1: whenever a teardown call (kubectl delete) has been issued, or is
\* about to be, the sampling loop has been left (completed, interrupted or
\* aborted) and the Run, with its end timestamp and the samples collected
\* up to then, is already in the output file.
C1_PersistedBeforeTeardown ==
    (TeardownIssued \/ pc \in TeardownSites) =>
        /\ loopEnd # "none"
        /\ Persisted
        /\ "end" \in DOMAIN file.doc
        /\ file.doc.samples = snap

C1_Witness ==
    /\ teardownLog # <<>>
    /\ loopEnd = "fatal"
    /\ Len(snap) >= 1
    /\ Persisted

\* C2: when the only interrupt of a run arrived during Sampling, the loop
\* has stopped as interrupted and, once the tool has ended, the file holds
\* exactly the samples appended before the interrupt, in order (elapsed
\* interval, 2 * interval, ...), in both trackers.
C2_InterruptKeepsSamples ==
    (intrPhase = "sampling" /\ interrupts = 1) =>
        /\ loopEnd = "interrupted"
        /\ Samples = snap
        /\ pc = "exited" =>
              /\ Persisted
              /\ file.doc.samples = snap
              /\ ArithmeticElapsed(file.doc.samples)

C2_Witness ==
    /\ pc = "exited"
    /\ tracker = "vpa"
    /\ intrPhase = "sampling"
    /\ Len(snap) = 2
    /\ Persisted
    /\ file.doc.samples = snap

\* C3: when a kubectl call of a Sampling iteration timed out or could not
\* be spawned (and no interrupt arrived), the tool ends with status 1 and
\* the samples of the earlier iterations are in the file by then.
C3_FatalKeepsSamples ==
    (pc = "exited" /\ loopEnd = "fatal" /\ interrupts = 0) =>
        /\ status = "1"
        /\ Persisted
        /\ file.doc.samples = snap

C3_Witness ==
    /\ pc = "exited"
    /\ loopEnd = "fatal"
    /\ interrupts = 0
    /\ Len(snap) >= 1
    /\ Persisted
    /\ status = "1"

\* C4 as claimed: a Sampling phase that is neither interrupted nor aborted
\* persists exactly floor(duration / interval) samples, sample n (from 1)
\* with elapsed = n * interval.
C4_ExactlyFloorSamples ==
    (loopEnd = "completed" /\ Persisted) =>
        /\ Len(file.doc.samples) = FloorDiv(duration, interval)
        /\ ArithmeticElapsed(file.doc.samples)

\* C4 as amended: the number of iterations and of persisted samples is
\* max(0, floor(duration / interval)): range() of a negative count is empty.
C4_ExactlyFloorOrNoSamples ==
    (loopEnd = "completed" /\ Persisted) =>
        /\ i = Max(0, FloorDiv(duration, interval))
        /\ Len(file.doc.samples) = Max(0, FloorDiv(duration, interval))
        /\ ArithmeticElapsed(file.doc.samples)

C4_Witness ==
    /\ pc = "exited"
    /\ loopEnd = "completed"
    /\ Persisted
    /\ Len(file.doc.samples) = 2

\* C5 as claimed: in every state of the Sampler and in every persisted Run
\* the elapsed values are interval, 2 * interval, ..., strictly increasing,
\* and there are at most floor(duration / interval) samples.
C5_ArithmeticAtMostFloor ==
    ("samples" \in DOMAIN data /\ interval # 0) =>
        /\ ArithmeticElapsed(Samples)
        /\ Len(Samples) <= FloorDiv(duration, interval)
        /\ Persisted =>
              /\ ArithmeticElapsed(file.doc.samples)
              /\ Len(file.doc.samples) <= FloorDiv(duration, interval)

\* C5 as amended: the number of samples is at most
\* max(0, floor(duration / interval)).
C5_ArithmeticAtMostFloorOrNone ==
    ("samples" \in DOMAIN data /\ interval # 0) =>
        /\ ArithmeticElapsed(Samples)
        /\ Len(Samples) <= Max(0, FloorDiv(duration, interval))
        /\ Persisted =>
              /\ ArithmeticElapsed(file.doc.samples)
              /\ Len(file.doc.samples) <= Max(0, FloorDiv(duration, interval))

C5_Witness ==
    /\ Phase(pc) = "sampling"
    /\ interval = 1
    /\ Len(Samples) = 2

\* C6: after a bounded readiness wait of Provisioning has expired the tool
\* ends with the fatal status and the Sampling loop is never entered.
C6_ExpiredWaitIsFatal ==
    waitExpired # "none" =>
        /\ Phase(pc) # "sampling"
        /\ loopEnd = "none"
        /\ pc = "exited" => status # "0"

\* C7: once the Run is persisted, no failure of a teardown call makes the
\* tool end with the fatal status, and the persisted Run stays as written:
\* a run whose Sampling completed and that was not interrupted ends with
\* status 0.
C7_TeardownFailureNotFatal ==
    (pc = "exited" /\ loopEnd = "completed" /\ interrupts = 0) =>
        /\ Persisted
        /\ file.doc.samples = snap
        /\ status = "0"

\* C8: run_kubectl ends the tool only on a timeout or a spawn failure; a
\* call that completes, with a zero or a non-zero exit code, returns to its
\* caller, and after a non-zero exit of the existence probe the record is
\* all "N/A" and the iteration goes on to append its Sample.
C8_NonZeroExitIsReturned ==
    /\ [](fatalCause \in {"none", "timeout", "spawn_error"})
    /\ [][(inflight /\ ~inflight' /\ lastOutcome' \in {"zero", "nonzero"})
            => fatalCause' = fatalCause]_vars
    /\ [][(pc \in {"get_pa_chk", "get_vpa_chk"} /\ inflight /\ ~inflight'
             /\ lastOutcome' = "nonzero")
            => /\ pc' = "append"
               /\ cur'.chk = "nonzero"
               /\ cur'.rec = BaseRec(tracker)
               /\ UNCHANGED <<loopEnd, status, data>>]_vars

C8_Witness ==
    /\ pc = "append"
    /\ tracker = "vpa"
    /\ cur.chk = "nonzero"
    /\ lastOutcome = "nonzero"
    /\ cur.rec = BaseRec("vpa")

ComparisonReadsMbcas == {"elapsed", "limit_m", "usage_m"}

\* compare_mbcas_vpa.py: the keys read from a sample of vpa_file
ComparisonReadsVpa ==
    {"elapsed_seconds", "limit_milli", "usage_milli", "vpa_target_milli"}

\* visualize_metrics.py: the keys read from a sample
StatisticsReadsSample ==
    {"elapsed_seconds", "request_milli", "limit_milli", "usage_milli",
     "pod_request", "pod_limit", "pod_usage", "podallocation_status"}

\* visualize_metrics.py: the keys read from the record
StatisticsReadsRecord ==
    {"samples", "pod_name", "namespace", "duration_seconds"}

\* C25: every field name the analysis tools read from a Run record and from
\* its samples is present in what the tracker of that kind of Run wrote.
C25_ReadFieldsAreWritten ==
    (Persisted /\ file.doc.samples # <<>>) =>
        \A k \in DOMAIN file.doc.samples :
            LET s == file.doc.samples[k]
            IN  IF tracker = "idle"
                THEN /\ ComparisonReadsMbcas \subseteq DOMAIN s
                     /\ StatisticsReadsSample \subseteq DOMAIN s
                     /\ StatisticsReadsRecord \subseteq DOMAIN file.doc
                ELSE ComparisonReadsVpa \subseteq DOMAIN s

\* the one pairing that works: the idle tracker's samples as mbcas_file
C25_Witness ==
    /\ Persisted /\ tracker = "idle" /\ Len(file.doc.samples) = 2
    /\ \A k \in DOMAIN file.doc.samples :
          ComparisonReadsMbcas \subseteq DOMAIN file.doc.samples[k]

\* the raw and the parsed fields of a sample, by tracker
ParsedFields(t) ==
    IF t = "idle"
    THEN {<<"request", "request_m">>, <<"limit", "limit_m">>,
          <<"usage", "usage_m">>}
    ELSE {<<"req", "req_m">>, <<"lim", "lim_m">>, <<"use", "use_m">>}

ParsedBy(t, raw) == IF t = "idle" THEN parse_cpu_to_milli(raw) ELSE parse_cpu(raw)

\* C26: every appended sample carries the three parsed milli-unit fields as
\* integers, each 0 when its raw string is "N/A" and each equal to the
\* parser's value for the raw string stored in the same sample.
C26_ParsedFieldsMatchRaw ==
    \A k \in DOMAIN Samples :
        \A f \in ParsedFields(tracker) :
            LET s == Samples[k]
            IN  /\ {f[1], f[2]} \subseteq DOMAIN s
                /\ s[f[2]] \in Int
                /\ ~ParsedBy(tracker, s[f[1]]).raised
                /\ s[f[2]] = ParsedBy(tracker, s[f[1]]).val
                /\ s[f[1]] = NA => s[f[2]] = 0

\* a sample whose limit query came back empty next to a request of 500m
C26_Witness ==
    /\ tracker = "idle" /\ Len(Samples) >= 1
    /\ Samples[1].limit = NA /\ Samples[1].limit_m = 0
    /\ Samples[1].request_m = 500

\* the calls made in a loop that goes round until the answer is ready
PollSites == DeadlineSites \cup {"pod_poll"}

\* a call has just come back with outcome lastOutcome'
CallReturns == inflight /\ ~inflight'

\* the tool is about to issue the call of the same statement again
IssuedAgain ==
    /\ pc' = pc
    /\ pc \in DeadlineSites => polls' < MaxPolls
    /\ pc = "pod_poll" => polls' < PodPollAttempts

\* C27 as stated: once a call has returned a non-zero exit code or has timed
\* out, the same call is not issued again.
C27_NoCallIssuedAgain ==
    [][(CallReturns /\ lastOutcome' \in {"nonzero", "timeout"})
          => ~IssuedAgain]_vars

\* C27 as amended: a call that timed out or could not be spawned is never
\* issued again, and a call that returned a non-zero exit code is issued
\* again only by a readiness poll of Provisioning.
C27_OnlyPollsIssueAgain ==
    [][(CallReturns /\ lastOutcome' # "zero" /\ IssuedAgain)
          => (pc \in PollSites /\ lastOutcome' = "nonzero")]_vars

\* the pod poll has been answered with a non-zero exit code and goes round
C27_Witness ==
    /\ pc = "pod_poll" /\ ~inflight /\ polls = 1
    /\ lastOutcome = "nonzero"

\* C28: in a Sampling phase that runs its n = floor(duration / interval)
\* iterations the loop suspends after each of the first n - 1 collections and
\* not after the last: a suspension follows collection k < n and precedes
\* collection k + 1, and persistence follows the last collection directly.
C28_SleepBetweenIterations ==
    [][/\ pc' = "sleep" =>
             /\ pc \in {"append", "sleep"}
             /\ i' < Iterations - 1
             /\ Len(Samples') = i' + 1
       /\ (pc = "append" /\ Len(Samples') = Len(Samples) + 1) =>
             IF Len(Samples') < Iterations
             THEN pc' = "sleep"
             ELSE pc' = "loop" /\ i' = Iterations
       /\ (pc = "sleep" /\ pc' # "sleep" /\ interrupts' = interrupts
              /\ interval >= 0) =>
             pc' = "loop" /\ i' = i + 1 /\ i' < Iterations
       /\ (pc # "persist" /\ pc' = "persist" /\ loopEnd' = "completed") =>
             /\ pc = "loop"
             /\ Len(Samples) = Max(0, Iterations)]_vars

\* two iterations: asleep after the first sample, one more to come
C28_Witness ==
    /\ pc = "sleep" /\ Iterations = 2 /\ i = 0 /\ Len(Samples) = 1
    /\ interrupts = 0

(***************************************************************************)
(* SpecParse: the parser applied to every string of at most MaxLen         *)
(* characters over Alphabet, and to the "N/A" sentinel.                    *)
(***************************************************************************)
Alphabet == {"0", "1", "5", ".", "-", "m", " "}

StringsUpTo(n) == UNION {[1..k -> Alphabet] : k \in 0..n}

ParserInputs == StringsUpTo(MaxLen) \cup {NA}

Pending == [fn |-> "none", raised |-> FALSE, val |-> 0]

Outcome(fn, r) == [fn |-> fn, raised |-> r.raised, val |-> r.val]

InitParse ==
    /\ input \in ParserInputs
    /\ result = Pending
    /\ tracker = "idle" /\ duration = 0 /\ interval = 1 /\ no_cleanup = TRUE
    /\ pc = "exited" /\ exc = "none" /\ status = "0"
    /\ inflight = FALSE /\ polls = 0 /\ i = 0
    /\ data = [start |-> "unset", samples |-> <<>>, end |-> "unset"]
    /\ cur = <<>> /\ file = <<>>
    /\ faults = 0 /\ interrupts = 0
    /\ lastOutcome = "none" /\ fatalCause = "none" /\ loopEnd = "none"
    /\ snap = <<>> /\ waitExpired = "none" /\ intrPhase = "none"
    /\ teardownLog = <<>>

ParseIdle ==
    /\ result = Pending
    /\ result' = Outcome("parse_cpu_to_milli", parse_cpu_to_milli(input))
    /\ UNCHANGED <<input, trackerV>>

ParseVpa ==
    /\ result = Pending
    /\ result' = Outcome("parse_cpu", parse_cpu(input))
    /\ UNCHANGED <<input, trackerV>>

NextParse == ParseIdle \/ ParseVpa

SpecParse == InitParse /\ [][NextParse]_vars

\* C10: parseQuantity never raises and returns a non-negative integer for
\* every string input (0 whenever the input cannot be parsed).
C10_NeverRaisesNonNegative ==
    result # Pending => ~result.raised /\ result.val >= 0

(***************************************************************************)
(* The quantity parser on the two textual forms of one quantity            *)
(* (specification SpecQuantity).                                           *)
(***************************************************************************)
DigitChar(d) ==
    CASE d = 0 -> "0" [] d = 1 -> "1" [] d = 2 -> "2" [] d = 3 -> "3"
      [] d = 4 -> "4" [] d = 5 -> "5" [] d = 6 -> "6" [] d = 7 -> "7"
      [] d = 8 -> "8" [] d = 9 -> "9"

\* the decimal numeral of a natural number
RECURSIVE NatText(_)
NatText(n) ==
    IF n < 10 THEN <<DigitChar(n)>>
    ELSE NatText(n \div 10) \o <<DigitChar(n % 10)>>

\* n milli-units written with the milli suffix: "500m"
MilliText(n) == NatText(n) \o <<"m">>

\* n milli-units written in whole units with three decimals: "0.500"
UnitTextFull(n) ==
    NatText(n \div 1000) \o <<".">>
        \o <<DigitChar((n \div 100) % 10), DigitChar((n \div 10) % 10),
             DigitChar(n % 10)>>

RECURSIVE DropTrailingZeros(_)
DropTrailingZeros(s) ==
    IF s[Len(s)] = "0" THEN DropTrailingZeros(SubSeq(s, 1, Len(s) - 1))
    ELSE IF s[Len(s)] = "." THEN SubSeq(s, 1, Len(s) - 1)
    ELSE s

\* the same without trailing zeros: "0.5", "1"
UnitTextShort(n) == DropTrailingZeros(UnitTextFull(n))

QuantityPairs ==
    UNION {{[n |-> n, milli |-> MilliText(n), unit |-> u] :
               u \in {UnitTextFull(n), UnitTextShort(n)}} : n \in 0..MaxMilli}

InitQuantity ==
    /\ input \in QuantityPairs
    /\ result = Pending
    /\ tracker = "idle" /\ duration = 0 /\ interval = 1 /\ no_cleanup = TRUE
    /\ pc = "exited" /\ exc = "none" /\ status = "0"
    /\ inflight = FALSE /\ polls = 0 /\ i = 0
    /\ data = [start |-> "unset", samples |-> <<>>, end |-> "unset"]
    /\ cur = <<>> /\ file = <<>>
    /\ faults = 0 /\ interrupts = 0
    /\ lastOutcome = "none" /\ fatalCause = "none" /\ loopEnd = "none"
    /\ snap = <<>> /\ waitExpired = "none" /\ intrPhase = "none"
    /\ teardownLog = <<>>

ParsePairIdle ==
    /\ result = Pending
    /\ result' = [fn |-> "parse_cpu_to_milli",
                  milli |-> parse_cpu_to_milli(input.milli),
                  unit |-> parse_cpu_to_milli(input.unit)]
    /\ UNCHANGED <<input, trackerV>>

ParsePairVpa ==
    /\ result = Pending
    /\ result' = [fn |-> "parse_cpu",
                  milli |-> parse_cpu(input.milli),
                  unit |-> parse_cpu(input.unit)]
    /\ UNCHANGED <<input, trackerV>>

NextQuantity == ParsePairIdle \/ ParsePairVpa

SpecQuantity == InitQuantity /\ [][NextQuantity]_vars

\* C11: a quantity written as "<n>m" and as the whole-unit decimal n / 1000
\* parses to the same integer n in both forms ("500m" and "0.5" give 500).
C11_BothFormsParseToN ==
    result # Pending =>
        /\ ~result.milli.raised /\ ~result.unit.raised
        /\ result.milli.val = input.n
        /\ result.unit.val = input.n

\* the scenario of the specification: "500m" and "0.5" both parse to 500
C11_Scenario500 ==
    /\ result # Pending
    /\ input.milli = <<"5", "0", "0", "m">>
    /\ input.unit = <<"0", ".", "5">>
    /\ result.milli.val = 500 /\ result.unit.val = 500

(***************************************************************************)
(* parse_iso (inspect_artifacts.py, visualize_artifacts.py): the text up   *)
(* to the first "+", then up to the first ".", handed to                   *)
(* datetime.strptime(ts, "%Y-%m-%dT%H:%M:%S")  (specification              *)
(* SpecTimestamp).                                                         *)
(***************************************************************************)
\* position of the first c in s at or after k, or 0
RECURSIVE FirstAt(_, _, _)
FirstAt(s, c, k) ==
    IF k > Len(s) THEN 0 ELSE IF s[k] = c THEN k ELSE FirstAt(s, c, k + 1)

\* ts.split(c)[0] when c is in ts, ts otherwise
Before(s, c) ==
    IF FirstAt(s, c, 1) = 0 THEN s ELSE SubSeq(s, 1, FirstAt(s, c, 1) - 1)

\* the number of consecutive digits of s from position k on
RECURSIVE RunLen(_, _)
RunLen(s, k) ==
    IF k <= Len(s) /\ s[k] \in Digits THEN 1 + RunLen(s, k + 1) ELSE 0

NoField == [ok |-> FALSE, val |-> 0, next |-> 0]

\* a numeric directive of the format matched at position k: one digit of at
\* least lo1, or two digits with a value in lo2..hi2; the characters after
\* it are left to the next element of the format
Field(s, k, lo1, lo2, hi2) ==
    LET n == RunLen(s, k)
        v == DecVal(SubSeq(s, k, k + n - 1))
    IN  IF n = 1 /\ v >= lo1 THEN [ok |-> TRUE, val |-> v, next |-> k + 1]
        ELSE IF n = 2 /\ v >= lo2 /\ v <= hi2
             THEN [ok |-> TRUE, val |-> v, next |-> k + 2]
             ELSE NoField

\* %Y: exactly four digits
YearField(s, k) ==
    IF RunLen(s, k) >= 4
    THEN [ok |-> TRUE, val |-> DecVal(SubSeq(s, k, k + 3)), next |-> k + 4]
    ELSE NoField

\* %d: 01..31, 1..9, or a blank and one of 1..9
DayField(s, k) ==
    IF k <= Len(s) /\ s[k] = " "
    THEN IF RunLen(s, k + 1) = 1 /\ s[k + 1] # "0"
         THEN [ok |-> TRUE, val |-> DigitVal(s[k + 1]), next |-> k + 2]
         ELSE NoField
    ELSE Field(s, k, 1, 1, 31)

\* a literal of the format at position k; the pattern is compiled with
\* re.IGNORECASE
Literal(s, k, cs) == k >= 1 /\ k <= Len(s) /\ s[k] \in cs

IsLeap(y) == (y % 4 = 0 /\ y % 100 # 0) \/ y % 400 = 0

DaysIn(y, m) ==
    CASE m \in {4, 6, 9, 11} -> 30
      [] m = 2 -> (IF IsLeap(y) THEN 29 ELSE 28)
      [] OTHER -> 31

\* the naive datetime value
Instant(y, mo, d, h, mi, sec) ==
    [year |-> y, month |-> mo, day |-> d, hour |-> h, minute |-> mi,
     second |-> sec]

\* datetime.strptime(s, ISO_FMT): the pattern must match the whole of s, and
\* the datetime constructor rejects year 0, a day the month does not have
\* and second 60 or 61; every failure is a ValueError
strptime_iso(s) ==
    LET y == YearField(s, 1)
        mo == Field(s, y.next + 1, 1, 1, 12)
        d == DayField(s, mo.next + 1)
        h == Field(s, d.next + 1, 0, 0, 23)
        mi == Field(s, h.next + 1, 0, 0, 59)
        sec == Field(s, mi.next + 1, 0, 0, 61)
    IN  IF /\ y.ok /\ Literal(s, y.next, {"-"})
           /\ mo.ok /\ Literal(s, mo.next, {"-"})
           /\ d.ok /\ Literal(s, d.next, {"T", "t"})
           /\ h.ok /\ Literal(s, h.next, {":"})
           /\ mi.ok /\ Literal(s, mi.next, {":"})
           /\ sec.ok /\ sec.next = Len(s) + 1
           /\ y.val >= 1 /\ d.val <= DaysIn(y.val, mo.val) /\ sec.val <= 59
        THEN Returned(Instant(y.val, mo.val, d.val, h.val, mi.val, sec.val))
        ELSE Raised

\* mutant: only the fractional seconds are dropped
parse_iso_keeps_offset(ts) == strptime_iso(Before(ts, "."))

parse_iso(ts) == strptime_iso(Before(Before(ts, "+"), "."))

\* the texts tried for each part of a timestamp
YearTexts == {<<"2", "0", "2", "6">>, <<"2", "0", "2", "4">>,
              <<"0", "0", "0", "0">>}
MonthTexts == {<<"0", "2">>, <<"2">>, <<"1", "2">>, <<"1", "3">>}
DayTexts == {<<"0", "1">>, <<"1">>, <<" ", "1">>, <<"2", "9">>,
             <<"3", "0">>, <<"0", "0">>}
DateTimeSeparators == {<<"T">>, <<"t">>, <<" ">>}
HourTexts == {<<"0", "0">>, <<"7">>, <<"2", "4">>}
MinuteTexts == {<<"0", "5">>, <<"5">>, <<"6", "0">>}
SecondTexts == {<<"0", "9">>, <<"9">>, <<"6", "0">>}

\* fractional seconds and "+" offsets
DroppedSuffixes ==
    {<<>>, <<".", "5">>, <<".", "7", "4", "1">>,
     <<"+", "0", "1", ":", "0", "0">>,
     <<".", "5", "+", "0", "1", ":", "0", "0">>,
     <<"+", "0", "1", ":", "0", "0", ".", "5">>, <<".">>, <<"+">>}
\* suffixes with neither
KeptSuffixes == {<<"Z">>, <<"-", "0", "5", ":", "0", "0">>}

TimestampParts ==
    {[base |-> y \o <<"-">> \o mo \o <<"-">> \o d \o t \o h \o <<":">>
                 \o mi \o <<":">> \o sec,
      suffix |-> x] :
        y \in YearTexts, mo \in MonthTexts, d \in DayTexts,
        t \in DateTimeSeparators, h \in HourTexts, mi \in MinuteTexts,
        sec \in SecondTexts, x \in DroppedSuffixes \cup KeptSuffixes}

InitTimestamp ==
    /\ input \in TimestampParts
    /\ result = Pending
    /\ tracker = "idle" /\ duration = 0 /\ interval = 1 /\ no_cleanup = TRUE
    /\ pc = "exited" /\ exc = "none" /\ status = "0"
    /\ inflight = FALSE /\ polls = 0 /\ i = 0
    /\ data = [start |-> "unset", samples |-> <<>>, end |-> "unset"]
    /\ cur = <<>> /\ file = <<>>
    /\ faults = 0 /\ interrupts = 0
    /\ lastOutcome = "none" /\ fatalCause = "none" /\ loopEnd = "none"
    /\ snap = <<>> /\ waitExpired = "none" /\ intrPhase = "none"
    /\ teardownLog = <<>>

\* parse_iso on the timestamp and on the same timestamp without its suffix
ParseIso ==
    /\ result = Pending
    /\ result' = [fn |-> "parse_iso",
                  full |-> parse_iso(input.base \o input.suffix),
                  bare |-> parse_iso(input.base)]
    /\ UNCHANGED <<input, trackerV>>

NextTimestamp == ParseIso

SpecTimestamp == InitTimestamp /\ [][NextTimestamp]_vars

\* what is left of the input after the two truncations
Remainder(s) ==
    LET cut == {k \in 1..Len(s) : s[k] \in {"+", "."}}
    IN  IF cut = {} THEN s
        ELSE SubSeq(s, 1, (CHOOSE k \in cut : \A j \in cut : k <= j) - 1)

\* s is YYYY-MM-DDTHH:MM:SS, two digits per field, a date the calendar has
MatchesLayout(s) ==
    /\ Len(s) = 19
    /\ \A k \in {1, 2, 3, 4, 6, 7, 9, 10, 12, 13, 15, 16, 18, 19} :
          s[k] \in Digits
    /\ s[5] = "-" /\ s[8] = "-" /\ s[11] = "T" /\ s[14] = ":" /\ s[17] = ":"
    /\ LET y == DecVal(SubSeq(s, 1, 4))
           mo == DecVal(SubSeq(s, 6, 7))
           d == DecVal(SubSeq(s, 9, 10))
       IN  /\ y >= 1 /\ mo \in 1..12 /\ d \in 1..DaysIn(y, mo)
           /\ DecVal(SubSeq(s, 12, 13)) <= 23
           /\ DecVal(SubSeq(s, 15, 16)) <= 59
           /\ DecVal(SubSeq(s, 18, 19)) <= 59

\* s is year-month-day, T or t, hour:minute:second, the year of four digits
\* and the other fields of one or two digits (the day also a blank and a
\* digit), with the values of a date the calendar has
OneOrTwoDigits(f) == Len(f) \in {1, 2} /\ AllDigits(f)

MatchesFormat(s) ==
    \E lm, ld, lh, li, ls \in {1, 2} :
        LET pm == 6
            pd == pm + lm + 1
            ph == pd + ld + 1
            pi == ph + lh + 1
            ps == pi + li + 1
            fy == SubSeq(s, 1, 4)
            fm == SubSeq(s, pm, pm + lm - 1)
            fd == SubSeq(s, pd, pd + ld - 1)
            fh == SubSeq(s, ph, ph + lh - 1)
            fi == SubSeq(s, pi, pi + li - 1)
            fs == SubSeq(s, ps, ps + ls - 1)
            day == IF fd[1] = " " THEN Tail(fd) ELSE fd
        IN  /\ Len(s) = ps + ls - 1
            /\ AllDigits(fy)
            /\ s[5] = "-" /\ s[pd - 1] = "-" /\ s[ph - 1] \in {"T", "t"}
            /\ s[pi - 1] = ":" /\ s[ps - 1] = ":"
            /\ OneOrTwoDigits(fm) /\ OneOrTwoDigits(fh)
            /\ OneOrTwoDigits(fi) /\ OneOrTwoDigits(fs)
            /\ day # <<>> /\ AllDigits(day)
            /\ (fd[1] = " " => day[1] # "0")
            /\ DecVal(fy) >= 1
            /\ DecVal(fm) \in 1..12
            /\ DecVal(day) \in 1..DaysIn(DecVal(fy), DecVal(fm))
            /\ DecVal(fh) <= 23 /\ DecVal(fi) <= 59 /\ DecVal(fs) <= 59

EpochYear == 2026

YearDays(y) == IF IsLeap(y) THEN 366 ELSE 365

RECURSIVE DaysFromEpoch(_)
DaysFromEpoch(y) ==
    IF y = EpochYear THEN 0
    ELSE IF y > EpochYear THEN DaysFromEpoch(y - 1) + YearDays(y - 1)
    ELSE DaysFromEpoch(y + 1) - YearDays(y)

RECURSIVE DaysBeforeMonth(_, _)
DaysBeforeMonth(y, m) ==
    IF m = 1 THEN 0 ELSE DaysBeforeMonth(y, m - 1) + DaysIn(y, m - 1)

Seconds(t) ==
    (DaysFromEpoch(t.year) + DaysBeforeMonth(t.year, t.month) + t.day - 1)
        * 86400
    + t.hour * 3600 + t.minute * 60 + t.second

\* (a - b).total_seconds()
total_seconds(a, b) == Seconds(a) - Seconds(b)

Abs(x) == IF x < 0 THEN -x ELSE x

\* "2026-01-01T00:00:ss"
TimeText(sec) ==
    <<"2", "0", "2", "6", "-", "0", "1", "-", "0", "1", "T",
      "0", "0", ":", "0", "0", ":",
      DigitChar(sec \div 10), DigitChar(sec % 10)>>

\* the "started" of the load-run file
LoadStartedText == TimeText(30)

\* the monitor-run files that may be in the artifact directory, and their
\* "started": 30 s before the load run, 10 s before (twice: the first with
\* sub-seconds and an offset), 10 s after
MonitorIds == {1, 2, 3, 4}

MonitorStartedText(id) ==
    CASE id = 1 -> TimeText(0)
      [] id = 2 -> TimeText(20) \o <<".", "5", "+", "0", "1", ":", "0", "0">>
      [] id = 3 -> TimeText(20)
      [] id = 4 -> TimeText(40)

\* the "timestamp" values a sample may have: 5 s before the load start, 5 s
\* after (with sub-seconds), at the load start, 15 s after, malformed, and
\* empty or missing
SampleTexts ==
    {TimeText(25), TimeText(35) \o <<".", "5">>, TimeText(30), TimeText(45),
     <<"x">>, <<>>}

Injective(f) == \A a, b \in DOMAIN f : f[a] = f[b] => a = b

\* the sequences without repetition of at most n elements of S
SeqsWithoutRepetition(S, n) ==
    UNION {{f \in [1..k -> S] : Injective(f)} : k \in 0..n}

SampleRecords ==
    {[k \in DOMAIN f |-> [timestamp |-> f[k]]] :
        f \in SeqsWithoutRepetition(SampleTexts, MaxSamples)}

\* the orders in which os.listdir may give the monitor-run files present
Listings == SeqsWithoutRepetition(MonitorIds, Cardinality(MonitorIds))

AlignInputs ==
    {[tool |-> "inspect_artifacts", listing |-> l, samples |-> ss] :
        l \in Listings, ss \in SampleRecords}
    \cup {[tool |-> "visualize_artifacts", listing |-> <<>>, samples |-> ss] :
        ss \in SampleRecords}

AlignStart == [pc |-> "start"]

InitAlign ==
    /\ input \in AlignInputs
    /\ result = AlignStart
    /\ tracker = "idle" /\ duration = 0 /\ interval = 1 /\ no_cleanup = TRUE
    /\ pc = "exited" /\ exc = "none" /\ status = "0"
    /\ inflight = FALSE /\ polls = 0 /\ i = 0
    /\ data = [start |-> "unset", samples |-> <<>>, end |-> "unset"]
    /\ cur = <<>> /\ file = <<>>
    /\ faults = 0 /\ interrupts = 0
    /\ lastOutcome = "none" /\ fatalCause = "none" /\ loopEnd = "none"
    /\ snap = <<>> /\ waitExpired = "none" /\ intrPhase = "none"
    /\ teardownLog = <<>>

\* the JSON document of monitor-run file id
MonitorFile(id, ss) ==
    [kind |-> "monitor-run", runId |-> id, started |-> MonitorStartedText(id),
     samples |-> ss]

\* MonitorRun(...) as load_artifacts builds it
MonitorRun(doc) ==
    [run_id |-> doc.runId, started |-> parse_iso(doc.started).val,
     sample_count |-> Len(doc.samples), samples |-> doc.samples]

LoadRun(text) == [run_id |-> "load", started |-> parse_iso(text).val]

\* load_artifacts: the runs in listing order; a "started" that parse_iso
\* rejects raises out of it
load_artifacts ==
    /\ input.tool = "inspect_artifacts"
    /\ result.pc = "start"
    /\ LET docs == [k \in DOMAIN input.listing |->
                       MonitorFile(input.listing[k], input.samples)]
       IN  IF \/ parse_iso(LoadStartedText).raised
              \/ \E k \in DOMAIN docs : parse_iso(docs[k].started).raised
           THEN result' = [pc |-> "raised"]
           ELSE result' = [pc |-> "loaded",
                           load_runs |-> <<LoadRun(LoadStartedText)>>,
                           monitor_runs |->
                               [k \in DOMAIN docs |-> MonitorRun(docs[k])]]
    /\ UNCHANGED <<input, trackerV>>

\* mutant: monitor runs that started at or after the load run
CandidatesNotBefore(monitor_runs, lr) ==
    SelectSeq(monitor_runs,
              LAMBDA mr : Seconds(mr.started) >= Seconds(lr.started))

\* [mr for mr in monitor_runs if mr.started <= lr.started]
Candidates(monitor_runs, lr) ==
    SelectSeq(monitor_runs,
              LAMBDA mr : Seconds(mr.started) <= Seconds(lr.started))

\* mutant: min(candidates, key=lambda mr: mr.started)
BestEarliest(candidates) ==
    LET k == CHOOSE a \in DOMAIN candidates :
                 /\ \A b \in DOMAIN candidates :
                       Seconds(candidates[b].started)
                           >= Seconds(candidates[a].started)
                 /\ \A b \in 1..(a - 1) :
                       Seconds(candidates[b].started)
                           > Seconds(candidates[a].started)
    IN  candidates[k]

\* max(candidates, key=lambda mr: mr.started): the first of the candidates
\* with the greatest key
Best(candidates) ==
    LET k == CHOOSE a \in DOMAIN candidates :
                 /\ \A b \in DOMAIN candidates :
                       Seconds(candidates[b].started)
                           <= Seconds(candidates[a].started)
                 /\ \A b \in 1..(a - 1) :
                       Seconds(candidates[b].started)
                           < Seconds(candidates[a].started)
    IN  candidates[k]

\* the loop over best.samples: (abs(delta), delta, s) for every sample whose
\* timestamp parse_iso accepts, the others skipped
RECURSIVE Deltas(_, _)
Deltas(samples, lr) ==
    IF samples = <<>> THEN <<>>
    ELSE LET s == Head(samples)
             ts_dt == parse_iso(s.timestamp)
             delta == total_seconds(ts_dt.val, lr.started)
         IN  (IF ts_dt.raised THEN <<>> ELSE <<<<Abs(delta), delta, s>>>>)
                 \o Deltas(Tail(samples), lr)

\* sorted(window, key=lambda x: x[0]): stable, equal keys keep their order
RECURSIVE SortedByFirst(_)
SortedByFirst(w) ==
    IF w = <<>> THEN <<>>
    ELSE LET x == w[Len(w)]
             front == SortedByFirst(SubSeq(w, 1, Len(w) - 1))
             n == Cardinality({k \in DOMAIN front : front[k][1] <= x[1]})
         IN  SubSeq(front, 1, n) \o <<x>> \o SubSeq(front, n + 1, Len(front))

\* w[:n]
FirstN(w, n) == SubSeq(w, 1, IF Len(w) < n THEN Len(w) ELSE n)

\* mutant: the first three in record order
NearestUnsorted(w) == FirstN(w, 3)

\* sorted(window, key=lambda x: x[0])[:3]
Nearest(w) == FirstN(SortedByFirst(w), 3)

\* align_runs for one load run
Alignment(lr, monitor_runs) ==
    LET candidates == Candidates(monitor_runs, lr)
    IN  IF candidates = <<>>
        THEN [aligned |-> FALSE]
        ELSE [aligned |-> TRUE,
              best |-> Best(candidates),
              window |-> Nearest(Deltas(Best(candidates).samples, lr))]

\* main calls align_runs when there are load runs and monitor runs
align_runs ==
    /\ result.pc = "loaded"
    /\ result' =
          IF result.monitor_runs = <<>>
          THEN [result EXCEPT !.pc = "done"] @@ [alignment |-> <<>>]
          ELSE [result EXCEPT !.pc = "done"] @@
               [alignment |->
                   [k \in DOMAIN result.load_runs |->
                       Alignment(result.load_runs[k], result.monitor_runs)]]
    /\ UNCHANGED <<input, trackerV>>

\* the loop of gather_series: the (ts, usage) points of the samples whose
\* timestamp parse_iso accepts
RECURSIVE SeriesPoints(_)
SeriesPoints(samples) ==
    IF samples = <<>> THEN <<>>
    ELSE LET ts == parse_iso(Head(samples).timestamp)
         IN  (IF ts.raised THEN <<>> ELSE <<ts.val>>)
                 \o SeriesPoints(Tail(samples))

\* if s.get("timestamp"): a non-empty string
Truthy(s) == s.timestamp # <<>>

\* gather_series: the series loop skips what parse_iso rejects; the returned
\* list parses every non-empty timestamp again, outside any try
gather_series ==
    /\ input.tool = "visualize_artifacts"
    /\ result.pc = "start"
    /\ LET samples == input.samples
           kept == SelectSeq(samples, Truthy)
       IN  IF \E k \in DOMAIN kept : parse_iso(kept[k].timestamp).raised
           THEN result' = [pc |-> "raised"]
           ELSE result' =
                   [pc |-> "done",
                    timestamps |->
                        [k \in DOMAIN kept |-> parse_iso(kept[k].timestamp).val],
                    series |-> SeriesPoints(samples)]
    /\ UNCHANGED <<input, trackerV>>

NextAlign == load_artifacts \/ align_runs \/ gather_series

SpecAlign == InitAlign /\ [][NextAlign]_vars

(***************************************************************************)
(* Properties of the alignment (specification SpecAlign).                  *)
(***************************************************************************)
WellFormed(s) == ~parse_iso(s.timestamp).raised

WellFormedSamples(ss) == SelectSeq(ss, WellFormed)

Min(a, b) == IF a <= b THEN a ELSE b

Range(f) == {f[k] : k \in DOMAIN f}

Qualifies(mr, lr) == Seconds(mr.started) <= Seconds(lr.started)

Aligned ==
    /\ input.tool = "inspect_artifacts"
    /\ result.pc = "done"
    /\ result.alignment # <<>>

\* C13: a malformed per-sample timestamp is skipped: align_runs and
\* gather_series do not raise, and their outputs are built from exactly the
\* samples whose timestamp is well formed.
C13_MalformedSampleSkipped ==
    /\ result.pc # "raised"
    /\ (input.tool = "visualize_artifacts" /\ result.pc = "done") =>
          /\ Len(result.timestamps) = Len(WellFormedSamples(input.samples))
          /\ Len(result.series) = Len(WellFormedSamples(input.samples))
    /\ Aligned =>
          \A k \in DOMAIN result.alignment :
              result.alignment[k].aligned =>
                  \A e \in Range(result.alignment[k].window) :
                      WellFormed(e[3])

\* align_runs has skipped a malformed and an empty timestamp
C13_AlignSkips ==
    /\ Aligned
    /\ result.alignment[1].aligned
    /\ \E a, b \in DOMAIN input.samples :
          /\ input.samples[a].timestamp = <<"x">>
          /\ input.samples[b].timestamp = <<>>
    /\ Len(result.alignment[1].window) = 2

\* C14: the monitor run align_runs selects started no later than the load
\* run, and no alignment is reported exactly when no monitor run did.
C14_SelectedNotAfterPrimary ==
    result.pc = "done" /\ input.tool = "inspect_artifacts" =>
        \A k \in DOMAIN result.load_runs :
            LET lr == result.load_runs[k]
                qualifying == {mr \in Range(result.monitor_runs) :
                                  Qualifies(mr, lr)}
            IN  IF qualifying = {}
                THEN result.alignment = <<>> \/ ~result.alignment[k].aligned
                ELSE /\ result.alignment[k].aligned
                     /\ result.alignment[k].best \in qualifying

\* a later monitor run was listed first and an earlier one was selected
C14_Witness ==
    /\ Aligned
    /\ input.listing = <<4, 1>>
    /\ result.alignment[1].aligned
    /\ result.alignment[1].best.run_id = 1

\* C15: no qualifying monitor run started later than the selected one; with
\* monitor runs started 30 s and 10 s before the load run, the one 10 s
\* before is selected.
C15_SelectedIsLatest ==
    Aligned =>
        \A k \in DOMAIN result.alignment :
            result.alignment[k].aligned =>
                \A mr \in Range(result.monitor_runs) :
                    Qualifies(mr, result.load_runs[k]) =>
                        Seconds(mr.started)
                            <= Seconds(result.alignment[k].best.started)

C15_Witness ==
    /\ Aligned
    /\ input.listing = <<3, 1>>
    /\ result.alignment[1].aligned
    /\ result.alignment[1].best.run_id = 3
    /\ total_seconds(result.alignment[1].best.started,
                     result.load_runs[1].started) = -10

\* C16: the nearest window holds min(3, well-formed samples of the selected
\* run) samples, in ascending order of |timestamp - load start|, and no
\* sample left out is nearer than a sample in the window.
C16_WindowIsThreeNearest ==
    Aligned =>
        \A k \in DOMAIN result.alignment :
            LET a == result.alignment[k]
                lr == result.load_runs[k]
                dist(s) == Abs(total_seconds(parse_iso(s.timestamp).val,
                                             lr.started))
            IN  a.aligned =>
                    LET wf == Range(WellFormedSamples(a.best.samples))
                        kept == {e[3] : e \in Range(a.window)}
                    IN  /\ Len(a.window) = Min(3, Cardinality(wf))
                        /\ Cardinality(kept) = Len(a.window)
                        /\ kept \subseteq wf
                        /\ \A j \in DOMAIN a.window :
                              a.window[j][1] = dist(a.window[j][3])
                        /\ \A j \in 1..(Len(a.window) - 1) :
                              a.window[j][1] <= a.window[j + 1][1]
                        /\ \A out \in wf \ kept : \A in \in kept :
                              dist(out) >= dist(in)

\* four well-formed samples, the farthest listed first and left out
C16_Witness ==
    /\ Aligned
    /\ result.alignment[1].aligned
    /\ Len(input.samples) = 4
    /\ input.samples[1].timestamp = TimeText(45)
    /\ Len(WellFormedSamples(input.samples)) = 4
    /\ Len(result.alignment[1].window) = 3
    /\ result.alignment[1].window[1][1] = 0
    /\ result.alignment[1].window[3][1] = 5

\* C17: of two samples at the same distance from the load start, the one
\* with the earlier timestamp comes first in the window, and is the one kept
\* when only one of them fits, whatever their order in the run record.
C17_TieEarliestFirst ==
    Aligned =>
        \A k \in DOMAIN result.alignment :
            LET a == result.alignment[k]
                lr == result.load_runs[k]
                delta(s) == total_seconds(parse_iso(s.timestamp).val,
                                          lr.started)
            IN  a.aligned =>
                    /\ \A j \in 1..(Len(a.window) - 1) :
                          a.window[j][1] = a.window[j + 1][1] =>
                              a.window[j][2] <= a.window[j + 1][2]
                    /\ \A out \in Range(WellFormedSamples(a.best.samples))
                                    \ {e[3] : e \in Range(a.window)} :
                          \A e \in Range(a.window) :
                              Abs(delta(out)) = e[1] => e[2] <= delta(out)

\* C18: the selected monitor run and the window do not depend on the order
\* in which the artifact directory lists the monitor-run files.
C18_IndependentOfListingOrder ==
    Aligned =>
        \A f \in {g \in [DOMAIN result.monitor_runs ->
                            DOMAIN result.monitor_runs] : Injective(g)} :
            \A k \in DOMAIN result.alignment :
                Alignment(result.load_runs[k],
                          [j \in DOMAIN result.monitor_runs |->
                              result.monitor_runs[f[j]]])
                    = result.alignment[k]

(***************************************************************************)
(* Quotients.  A Python true division is kept as the exact fraction in     *)
(* lowest terms with a positive denominator.                               *)
(***************************************************************************)
RECURSIVE GCD(_, _)
GCD(a, b) == IF b = 0 THEN a ELSE GCD(b, a % b)

\* the value n / d, d # 0
Frac(n, d) ==
    LET g == GCD(Abs(n), Abs(d))
        s == IF d < 0 THEN -1 ELSE 1
    IN  [num |-> s * (n \div g), den |-> s * (d \div g)]

\* the literal 0 of an `else 0`; 0 == 0.0 in Python
Zero == [num |-> 0, den |-> 1]

FracLess(x, y) == x.num * y.den < y.num * x.den

FracAdd(x, y) == Frac(x.num * y.den + y.num * x.den, x.den * y.den)

(***************************************************************************)
(* Change detection: visualize_metrics.py print_statistics,                *)
(* compare_mbcas_vpa.py print_comparison_stats and compare_systems         *)
(* (specification SpecChanges).                                            *)
(***************************************************************************)
\* the limits a sample may carry, in milli-units
LimitValues == {0, 500, 1000}

\* the elapsed seconds a sample may carry
ElapsedValues == {0, 5, 10, 15}

NonDecreasing(q) == \A k \in 2..Len(q) : q[k - 1] <= q[k]

ReverseSeq(q) == [k \in DOMAIN q |-> q[Len(q) + 1 - k]]

\* the usage a sample may carry, in milli-units
UsageSamples == {0, 750}

\* the sample sequences of the Runs tried: elapsed never decreases; either
\* the times vary and the usage is 250 throughout, or the usage varies and
\* the samples are 5 seconds apart
RunInputs ==
    UNION {{[elapsed |-> e, limits |-> l, usage |-> [k \in 1..n |-> 250]] :
               e \in {q \in [1..n -> ElapsedValues] : NonDecreasing(q)},
               l \in [1..n -> LimitValues]}
           \cup
           {[elapsed |-> [k \in 1..n |-> 5 * (k - 1)], limits |-> l,
             usage |-> u] :
               l \in [1..n -> LimitValues], u \in [1..n -> UsageSamples]}
           : n \in 0..MaxRunLen}

ElapsedAt(r, k) == r.elapsed[k]

\* the file visualize_metrics.py reads, and compare_mbcas_vpa.py reads as
\* its vpa_file
MilliFile(r) ==
    [pod_name |-> "pod", namespace |-> "ns",
     duration_seconds |-> IF r.elapsed = <<>> THEN 0
                          ELSE r.elapsed[Len(r.elapsed)],
     samples |-> [k \in DOMAIN r.limits |->
                     [elapsed_seconds |-> ElapsedAt(r, k),
                      limit_milli |-> r.limits[k],
                      usage_milli |-> r.usage[k]]]]

\* the file compare_mbcas_vpa.py reads as its mbcas_file
MFile(r) ==
    [samples |-> [k \in DOMAIN r.limits |->
                     [elapsed |-> ElapsedAt(r, k), limit_m |-> r.limits[k],
                      usage_m |-> r.usage[k]]]]

\* the vpa_file compared with the Run: the same times, the limits reversed
Counterpart(r) ==
    [elapsed |-> r.elapsed, limits |-> ReverseSeq(r.limits),
     usage |-> r.usage]

InitChanges ==
    /\ input \in RunInputs
    /\ result = [pc |-> "start"]
    /\ tracker = "idle" /\ duration = 0 /\ interval = 1 /\ no_cleanup = TRUE
    /\ pc = "exited" /\ exc = "none" /\ status = "0"
    /\ inflight = FALSE /\ polls = 0 /\ i = 0
    /\ data = [start |-> "unset", samples |-> <<>>, end |-> "unset"]
    /\ cur = <<>> /\ file = <<>>
    /\ faults = 0 /\ interrupts = 0
    /\ lastOutcome = "none" /\ fatalCause = "none" /\ loopEnd = "none"
    /\ snap = <<>> /\ waitExpired = "none" /\ intrPhase = "none"
    /\ teardownLog = <<>>

\* the indices range(1, len(samples)) runs over, 1-based
LaterIndices(q) == [k \in 1..(Len(q) - 1) |-> k + 1]

\* mutant: every sample is compared with the first one
ChangesAgainstFirst(samples) ==
    LET changed(k) == samples[k].limit_milli # samples[1].limit_milli
        at == SelectSeq(LaterIndices(samples), changed)
    IN  [j \in DOMAIN at |->
            [time |-> samples[at[j]].elapsed_seconds,
             from |-> samples[at[j] - 1].limit_milli,
             to |-> samples[at[j]].limit_milli,
             delta |-> samples[at[j]].limit_milli
                          - samples[at[j] - 1].limit_milli]]

\* mutant: `from` is the limit of the first sample
ChangesFromInitial(samples) ==
    LET changed(k) == samples[k].limit_milli # samples[k - 1].limit_milli
        at == SelectSeq(LaterIndices(samples), changed)
    IN  [j \in DOMAIN at |->
            [time |-> samples[at[j]].elapsed_seconds,
             from |-> samples[1].limit_milli,
             to |-> samples[at[j]].limit_milli,
             delta |-> samples[at[j]].limit_milli - samples[1].limit_milli]]

\* print_statistics: changes
Changes(samples) ==
    LET changed(k) == samples[k].limit_milli # samples[k - 1].limit_milli
        at == SelectSeq(LaterIndices(samples), changed)
    IN  [j \in DOMAIN at |->
            [time |-> samples[at[j]].elapsed_seconds,
             from |-> samples[at[j] - 1].limit_milli,
             to |-> samples[at[j]].limit_milli,
             delta |-> samples[at[j]].limit_milli
                          - samples[at[j] - 1].limit_milli]]

\* Resource Reduction, printed when the initial limit is positive
Reduction(samples) ==
    LET initial == samples[1]
        final == samples[Len(samples)]
    IN  IF initial.limit_milli > 0
        THEN [printed |-> TRUE,
              reduction_abs |-> initial.limit_milli - final.limit_milli,
              reduction_pct |->
                  Frac((initial.limit_milli - final.limit_milli) * 100,
                       initial.limit_milli)]
        ELSE [printed |-> FALSE, reduction_abs |-> 0, reduction_pct |-> Zero]

RECURSIVE SumOf(_)
SumOf(q) == IF q = <<>> THEN Zero ELSE FracAdd(Head(q), SumOf(Tail(q)))

\* sum(xs) / len(xs), max(xs), min(xs), printed when xs is not empty
StatsOf(xs) ==
    IF xs = <<>>
    THEN [printed |-> FALSE, avg |-> Zero, max |-> Zero, min |-> Zero]
    ELSE LET total == SumOf(xs)
             among == {xs[k] : k \in DOMAIN xs}
         IN  [printed |-> TRUE,
              avg |-> Frac(total.num, total.den * Len(xs)),
              max |-> CHOOSE x \in among :
                          \A y \in among : ~FracLess(x, y),
              min |-> CHOOSE x \in among :
                          \A y \in among : ~FracLess(y, x)]

\* usage_samples = [s['usage_milli'] for s in samples if s['usage_milli'] > 0]
usage_samples(samples) ==
    LET kept(s) == s.usage_milli > 0
        among == SelectSeq(samples, kept)
    IN  [k \in DOMAIN among |-> Frac(among[k].usage_milli, 1)]

\* efficiency_samples: usage / limit * 100 of the samples with
\* limit_milli > 0 and usage_milli > 0
efficiency_samples(samples) ==
    LET kept(s) == s.limit_milli > 0 /\ s.usage_milli > 0
        among == SelectSeq(samples, kept)
    IN  [k \in DOMAIN among |->
            Frac(among[k].usage_milli * 100, among[k].limit_milli)]

\* print_statistics returns at once on an empty sample list
print_statistics ==
    /\ result.pc = "start"
    /\ LET samples == MilliFile(input).samples
       IN  result' =
              IF samples = <<>>
              THEN [pc |-> "done", fn |-> "print_statistics",
                    printed |-> FALSE, changes |-> <<>>, total |-> 0]
              ELSE [pc |-> "done", fn |-> "print_statistics",
                    printed |-> TRUE,
                    reduction |-> Reduction(samples),
                    changes |-> Changes(samples),
                    total |-> Len(Changes(samples)),
                    usage |-> StatsOf(usage_samples(samples)),
                    utilization |-> StatsOf(efficiency_samples(samples))]
    /\ UNCHANGED <<input, trackerV>>

\* plot_resource_allocation returns at once on an empty sample list; its
\* change records carry no delta
plot_resource_allocation ==
    /\ result.pc = "start"
    /\ LET samples == MilliFile(input).samples
           changes == Changes(samples)
       IN  result' =
              IF samples = <<>>
              THEN [pc |-> "done", fn |-> "plot_resource_allocation",
                    plotted |-> FALSE]
              ELSE [pc |-> "done", fn |-> "plot_resource_allocation",
                    plotted |-> TRUE,
                    changes |-> [j \in DOMAIN changes |->
                                    [time |-> changes[j].time,
                                     from |-> changes[j].from,
                                     to |-> changes[j].to]],
                    efficiency |->
                        [k \in DOMAIN samples |->
                            IF samples[k].limit_milli > 0
                            THEN Frac(samples[k].usage_milli * 100,
                                      samples[k].limit_milli)
                            ELSE Zero]]
    /\ UNCHANGED <<input, trackerV>>

None == [none |-> TRUE, val |-> 0]
Some(v) == [none |-> FALSE, val |-> v]

\* sum(1 for i in range(1, len(samples)) if limit[i] != limit[i-1])
CountChanges(limits) ==
    Cardinality({k \in 2..Len(limits) : limits[k] # limits[k - 1]})

\* the loop that finds the first sample whose limit differs from sample 0
FirstDiffering(limits, elapsed) ==
    LET differs == {k \in 2..Len(limits) : limits[k] # limits[1]}
    IN  IF differs = {} THEN None
        ELSE Some(elapsed[CHOOSE k \in differs : \A j \in differs : k <= j])

\* `x if first else y`: None and 0 are false
IsTruthy(first) == ~first.none /\ first.val # 0

\* f"  MBCAS: {first}s" if first else "  MBCAS: No changes"
FirstChangeLine(first) ==
    IF IsTruthy(first) THEN [text |-> "s", val |-> first.val]
    ELSE [text |-> "No changes", val |-> 0]

\* [first if first else 0, ...], the bar of compare_systems
FirstChangeBar(first) == IF IsTruthy(first) THEN first.val ELSE 0

\* the statistics of one of the two files
ComparisonOf(limits, elapsed) ==
    [changes |-> CountChanges(limits),
     first |-> FirstDiffering(limits, elapsed),
     line |-> FirstChangeLine(FirstDiffering(limits, elapsed)),
     bar |-> FirstChangeBar(FirstDiffering(limits, elapsed))]

\* an empty sample list raises: samples[0] an IndexError in
\* print_comparison_stats, max(mbcas_elapsed) a ValueError in compare_systems
Compared(fn, exception) ==
    LET ms == MFile(input).samples
        vs == MilliFile(Counterpart(input)).samples
    IN  IF ms = <<>> \/ vs = <<>>
        THEN [pc |-> "raised", fn |-> fn, exception |-> exception]
        ELSE [pc |-> "done", fn |-> fn,
              mbcas |-> ComparisonOf([k \in DOMAIN ms |-> ms[k].limit_m],
                                     [k \in DOMAIN ms |-> ms[k].elapsed]),
              vpa |-> ComparisonOf(
                         [k \in DOMAIN vs |-> vs[k].limit_milli],
                         [k \in DOMAIN vs |-> vs[k].elapsed_seconds])]

print_comparison_stats ==
    /\ result.pc = "start"
    /\ result' = Compared("print_comparison_stats", "IndexError")
    /\ UNCHANGED <<input, trackerV>>

compare_systems ==
    /\ result.pc = "start"
    /\ result' = Compared("compare_systems", "ValueError")
    /\ UNCHANGED <<input, trackerV>>

NextChanges ==
    \/ print_statistics
    \/ plot_resource_allocation
    \/ print_comparison_stats
    \/ compare_systems

SpecChanges == InitChanges /\ [][NextChanges]_vars

(***************************************************************************)
(* Properties of change detection (specification SpecChanges).             *)
(***************************************************************************)
\* the indices whose limit differs from that of the sample before
ChangedAt(limits) == {k \in 2..Len(limits) : limits[k] # limits[k - 1]}

\* the j-th smallest element of a set of numbers
Nth(S, j) == CHOOSE x \in S : Cardinality({y \in S : y < x}) = j - 1

Comparing == result.fn \in {"print_comparison_stats", "compare_systems"}

ScenarioA ==
    /\ input.elapsed = <<0, 5, 10, 15>>
    /\ input.limits = <<1000, 1000, 500, 500>>

\* C19: change detection emits exactly one event for each index i >= 1 whose
\* limit differs from that of sample i - 1, in sample order, with time the
\* elapsed of sample i, from and to the two limits and delta = to - from;
\* changeCount is the number of such indices.
C19_OneEventPerChange ==
    /\ (result.pc = "done" /\ result.fn = "print_statistics") =>
          LET at == ChangedAt(input.limits)
          IN  /\ Len(result.changes) = Cardinality(at)
              /\ result.total = Cardinality(at)
              /\ \A j \in DOMAIN result.changes :
                    LET k == Nth(at, j)
                        e == result.changes[j]
                    IN  /\ e.time = ElapsedAt(input, k)
                        /\ e.from = input.limits[k - 1]
                        /\ e.to = input.limits[k]
                        /\ e.delta = e.to - e.from
              /\ ScenarioA =>
                    result.changes =
                        <<[time |-> 10, from |-> 1000, to |-> 500,
                           delta |-> -500]>>
    /\ (result.pc = "done" /\ Comparing) =>
          /\ result.mbcas.changes = Cardinality(ChangedAt(input.limits))
          /\ result.vpa.changes
                = Cardinality(ChangedAt(Counterpart(input).limits))

\* limits [1000, 500, 500, 1000]: two events, the second back to 1000
C19_Witness ==
    /\ result.pc = "done" /\ result.fn = "print_statistics"
    /\ input.limits = <<1000, 500, 500, 1000>>
    /\ input.elapsed = <<0, 5, 10, 15>>
    /\ Len(result.changes) = 2
    /\ result.changes[2] =
          [time |-> 15, from |-> 500, to |-> 1000, delta |-> 500]

\* C20: for every Run (elapsed non-decreasing), the first-change time of the
\* comparison is the time of the first event of pairwise change detection on
\* the same Run, and it is reported as none / "No changes" exactly when the
\* Run has no change.
C20_FirstChangeAgrees ==
    (result.pc = "done" /\ Comparing) =>
        \A side \in {"mbcas", "vpa"} :
            LET r == IF side = "mbcas" THEN input ELSE Counterpart(input)
                c == result[side]
                events == Changes(MilliFile(r).samples)
            IN  /\ c.first.none <=> c.changes = 0
                /\ c.first.none <=> events = <<>>
                /\ ~c.first.none => c.first.val = events[1].time
                /\ c.line.text = "No changes" <=> c.changes = 0
                /\ c.line.text # "No changes" => c.line.val = events[1].time
                /\ c.bar = IF events = <<>> THEN 0 ELSE events[1].time

\* the limit changes, then changes back to the first sample's value
C20_Witness ==
    /\ result.pc = "done" /\ result.fn = "print_comparison_stats"
    /\ input.limits = <<1000, 1000, 500, 1000>>
    /\ input.elapsed = <<0, 5, 10, 15>>
    /\ result.mbcas.first = Some(10)
    /\ result.mbcas.line = [text |-> "s", val |-> 10]
    /\ result.mbcas.changes = 2
    /\ result.vpa.first = Some(5)

\* every sample's usage, and the utilization of every sample with limit > 0
AllUsage(r) == [k \in DOMAIN r.usage |-> Frac(r.usage[k], 1)]

UtilizationWithLimit(r) ==
    LET positive(k) == r.limits[k] > 0
        at == SelectSeq([k \in DOMAIN r.limits |-> k], positive)
    IN  [j \in DOMAIN at |-> Frac(r.usage[at[j]] * 100, r.limits[at[j]])]

Statistics == result.pc = "done" /\ result.fn = "print_statistics"

\* C23: mean, maximum and minimum of usage are taken over all samples of
\* the Run, and those of limit utilization over exactly the samples with
\* limit > 0, so a sample with usage 0 and limit > 0 contributes a 0 to both.
C23_ZeroUsageContributes ==
    (Statistics /\ result.printed) =>
        /\ result.usage = StatsOf(AllUsage(input))
        /\ result.utilization = StatsOf(UtilizationWithLimit(input))

\* with no zero usage the aggregates are those of the claim: the sample with
\* limit 0 is left out of the utilization, not counted as 0
C23_Witness ==
    /\ Statistics
    /\ input.limits = <<1000, 0, 500>> /\ input.usage = <<750, 750, 750>>
    /\ result.usage = StatsOf(AllUsage(input))
    /\ result.utilization = StatsOf(UtilizationWithLimit(input))
    /\ result.utilization.min = [num |-> 75, den |-> 1]
    /\ result.utilization.avg = [num |-> 225, den |-> 2]

RECURSIVE DeltaSum(_)
DeltaSum(q) == IF q = <<>> THEN 0 ELSE Head(q).delta + DeltaSum(Tail(q))

\* C29: for a non-empty Run the deltas of the change events sum to the last
\* limit minus the first, each event's `from` is the `to` of the event before
\* (the first sample's limit for the first event), and there are at most
\* (number of samples - 1) events.
C29_DeltasTelescope ==
    (Statistics /\ input.limits # <<>>) =>
        LET n == Len(input.limits)
            events == result.changes
        IN  /\ DeltaSum(events) = input.limits[n] - input.limits[1]
            /\ \A j \in DOMAIN events :
                  events[j].from = IF j = 1 THEN input.limits[1]
                                   ELSE events[j - 1].to
            /\ result.total <= n - 1
            /\ result.reduction.printed =>
                  result.reduction.reduction_abs = -DeltaSum(events)

\* every step changes the limit; the deltas -500, -500, +1000 sum to 0
C29_Witness ==
    /\ Statistics
    /\ input.limits = <<1000, 500, 0, 1000>>
    /\ result.total = 3
    /\ DeltaSum(result.changes) = 0
    /\ result.changes[3].from = 0
    /\ result.reduction.reduction_abs = 0

\* C30: a Run record with zero samples is processed by print_statistics,
\* print_comparison_stats and compare_systems without an unhandled error,
\* reporting no changes.
C30_EmptyRunProcessed ==
    (input.limits = <<>> /\ result.pc # "start") =>
        /\ result.pc = "done"
        /\ result.fn = "print_statistics" => result.total = 0
        /\ Comparing => result.mbcas.changes = 0 /\ result.vpa.changes = 0

\* print_statistics on the empty Run returns without output
C30_Witness ==
    /\ input.limits = <<>>
    /\ Statistics /\ ~result.printed /\ result.total = 0

(***************************************************************************)
(* Efficiency and pairwise comparison: analyze_metrics.py                  *)
(* calculate_efficiency and compare_workloads (specification               *)
(* SpecEfficiency).                                                        *)
(***************************************************************************)
\* n / d * 100: a zero divisor raises ZeroDivisionError
Quotient100(n, d) ==
    IF d = 0 THEN [raised |-> TRUE, val |-> Zero]
    ELSE [raised |-> FALSE, val |-> Frac(n * 100, d)]

\* mutant: the guard tests `!= 0`
PercentIfNonZero(n, d) ==
    IF d # 0 THEN Quotient100(n, d) ELSE [raised |-> FALSE, val |-> Zero]

\* (n / d * 100) if d > 0 else 0
PercentIfPositive(n, d) ==
    IF d > 0 THEN Quotient100(n, d) ELSE [raised |-> FALSE, val |-> Zero]

\* mutant: a negative overhead is clamped to 0
OverheadClamped(avg_usage, final_limit) ==
    LET o == PercentIfPositive(final_limit - avg_usage, final_limit)
    IN  IF FracLess(o.val, Zero) THEN [raised |-> FALSE, val |-> Zero] ELSE o

\* overhead = ((final_limit - avg_usage) / final_limit * 100)
\*            if final_limit > 0 else 0
Overhead(avg_usage, final_limit) ==
    PercentIfPositive(final_limit - avg_usage, final_limit)

calculate_efficiency(workload) ==
    LET avg_usage == workload.avg_usage_milli
        final_request == workload.final_request_milli
        final_limit == workload.final_limit_milli
        request_utilization == PercentIfPositive(avg_usage, final_request)
        limit_utilization == PercentIfPositive(avg_usage, final_limit)
        overhead == Overhead(avg_usage, final_limit)
    IN  IF \/ request_utilization.raised
           \/ limit_utilization.raised
           \/ overhead.raised
        THEN [raised |-> TRUE, exception |-> "ZeroDivisionError"]
        ELSE [raised |-> FALSE,
              request_utilization_pct |-> request_utilization.val,
              limit_utilization_pct |-> limit_utilization.val,
              overhead_pct |-> overhead.val]

\* mutant: diff is taken the other way round
DiffReversed(a, b) == b - a

\* mbcas - vpa
Diff(a, b) == a - b

\* 'diff' and 'diff_pct' of one compared metric
Compare(a, b) ==
    [mbcas |-> a, vpa |-> b, diff |-> Diff(a, b),
     diff_pct |-> PercentIfPositive(Diff(a, b), b)]

compare_workloads(mbcas_wl, vpa_wl) ==
    LET mbcas_eff == calculate_efficiency(mbcas_wl)
        vpa_eff == calculate_efficiency(vpa_wl)
        allocation_changes ==
            Compare(mbcas_wl.allocation_changes, vpa_wl.allocation_changes)
        avg_usage == Compare(mbcas_wl.avg_usage_milli, vpa_wl.avg_usage_milli)
    IN  IF \/ mbcas_eff.raised \/ vpa_eff.raised
           \/ allocation_changes.diff_pct.raised \/ avg_usage.diff_pct.raised
        THEN [raised |-> TRUE, exception |-> "ZeroDivisionError"]
        ELSE [raised |-> FALSE,
              name |-> mbcas_wl.name,
              allocation_changes |->
                  [allocation_changes EXCEPT !.diff_pct = @.val],
              avg_usage |-> [avg_usage EXCEPT !.diff_pct = @.val],
              throttling |->
                  [mbcas_avg |-> mbcas_wl.avg_throttling_ratio,
                   vpa_avg |-> vpa_wl.avg_throttling_ratio,
                   mbcas_duration |-> mbcas_wl.throttling_duration_seconds,
                   vpa_duration |-> vpa_wl.throttling_duration_seconds],
              final_allocation |->
                  [mbcas_request |-> mbcas_wl.final_request_milli,
                   vpa_request |-> vpa_wl.final_request_milli,
                   mbcas_limit |-> mbcas_wl.final_limit_milli,
                   vpa_limit |-> vpa_wl.final_limit_milli],
              efficiency |->
                  [mbcas_request_util |-> mbcas_eff.request_utilization_pct,
                   vpa_request_util |-> vpa_eff.request_utilization_pct,
                   mbcas_limit_util |-> mbcas_eff.limit_utilization_pct,
                   vpa_limit_util |-> vpa_eff.limit_utilization_pct,
                   mbcas_overhead |-> mbcas_eff.overhead_pct,
                   vpa_overhead |-> vpa_eff.overhead_pct]]

\* the workloads tried; scenario D is avg_usage 400 with final_limit 0
ChangeCounts == {0, 2, 3}
UsageValues == {-400, 0, 400, 1200}
RequestValues == {-500, 0, 500}
FinalLimitValues == {-1000, 0, 1000}

Workloads ==
    {[name |-> "w", allocation_changes |-> c, avg_usage_milli |-> u,
      final_request_milli |-> r, final_limit_milli |-> l,
      avg_throttling_ratio |-> 0, throttling_duration_seconds |-> 0] :
        c \in ChangeCounts, u \in UsageValues,
        r \in RequestValues, l \in FinalLimitValues}

InitEfficiency ==
    /\ input \in {[mbcas |-> a, vpa |-> b] : a \in Workloads, b \in Workloads}
    /\ result = [pc |-> "start"]
    /\ tracker = "idle" /\ duration = 0 /\ interval = 1 /\ no_cleanup = TRUE
    /\ pc = "exited" /\ exc = "none" /\ status = "0"
    /\ inflight = FALSE /\ polls = 0 /\ i = 0
    /\ data = [start |-> "unset", samples |-> <<>>, end |-> "unset"]
    /\ cur = <<>> /\ file = <<>>
    /\ faults = 0 /\ interrupts = 0
    /\ lastOutcome = "none" /\ fatalCause = "none" /\ loopEnd = "none"
    /\ snap = <<>> /\ waitExpired = "none" /\ intrPhase = "none"
    /\ teardownLog = <<>>

\* calculate_efficiency called on the first workload
CalculateEfficiency ==
    /\ result.pc = "start"
    /\ result' = [pc |-> "done", fn |-> "calculate_efficiency",
                  eff |-> calculate_efficiency(input.mbcas)]
    /\ UNCHANGED <<input, trackerV>>

\* compare_workloads called on the pair, and then once more
CompareWorkloads ==
    /\ \/ result.pc = "start"
       \/ result.pc = "done" /\ result.fn = "compare_workloads"
                             /\ result.calls = 1
    /\ result' = [pc |-> "done", fn |-> "compare_workloads",
                  calls |-> IF result.pc = "start" THEN 1 ELSE 2,
                  before |-> IF result.pc = "start" THEN <<>>
                             ELSE <<result.comparison>>,
                  comparison |-> compare_workloads(input.mbcas, input.vpa)]
    /\ UNCHANGED <<input, trackerV>>

NextEfficiency == CalculateEfficiency \/ CompareWorkloads

SpecEfficiency == InitEfficiency /\ [][NextEfficiency]_vars

(***************************************************************************)
(* Properties of the efficiency metrics (specification SpecEfficiency).    *)
(***************************************************************************)
Efficient == result.pc = "done" /\ result.fn = "calculate_efficiency"

\* C21: requestUtilization is 0 when request <= 0, limitUtilization and
\* overhead are 0 when limit <= 0, and no input raises a division error;
\* usage 400 with limit 0 gives overhead 0.
C21_ZeroOnNonPositiveDenominator ==
    Efficient =>
        LET w == input.mbcas
            e == result.eff
        IN  /\ ~e.raised
            /\ w.final_request_milli <= 0 => e.request_utilization_pct = Zero
            /\ w.final_limit_milli <= 0 =>
                  /\ e.limit_utilization_pct = Zero
                  /\ e.overhead_pct = Zero

\* scenario D, with a negative request
C21_Witness ==
    /\ Efficient
    /\ input.mbcas.avg_usage_milli = 400
    /\ input.mbcas.final_limit_milli = 0
    /\ input.mbcas.final_request_milli < 0
    /\ ~result.eff.raised
    /\ result.eff.overhead_pct = Zero
    /\ result.eff.request_utilization_pct = Zero

\* C22: with limit > 0 and usage > limit the overhead is the negative value
\* (limit - usage) / limit * 100, never clamped to 0; with
\* 0 <= usage <= limit and limit > 0 the overhead and both utilizations are
\* non-negative.
C22_NegativeOverheadKept ==
    Efficient =>
        LET w == input.mbcas
            e == result.eff
            usage == w.avg_usage_milli
            limit == w.final_limit_milli
        IN  /\ (limit > 0 /\ usage > limit) =>
                  /\ e.overhead_pct = Frac((limit - usage) * 100, limit)
                  /\ FracLess(e.overhead_pct, Zero)
            /\ (limit > 0 /\ 0 <= usage /\ usage <= limit) =>
                  /\ ~FracLess(e.overhead_pct, Zero)
                  /\ ~FracLess(e.limit_utilization_pct, Zero)
                  /\ ~FracLess(e.request_utilization_pct, Zero)

\* usage 1200 against limit 1000: overhead -20
C22_Witness ==
    /\ Efficient
    /\ input.mbcas.avg_usage_milli = 1200
    /\ input.mbcas.final_limit_milli = 1000
    /\ result.eff.overhead_pct = [num |-> -20, den |-> 1]

WorkloadsCompared == result.pc = "done" /\ result.fn = "compare_workloads"

\* the two compared metrics, as <<a, b, entry of the comparison>>
ComparedMetrics ==
    {<<input.mbcas.allocation_changes, input.vpa.allocation_changes,
       result.comparison.allocation_changes>>,
     <<input.mbcas.avg_usage_milli, input.vpa.avg_usage_milli,
       result.comparison.avg_usage>>}

\* C24 as stated: diff = a - b, diffPct = diff / b * 100 for every b other
\* than 0 and 0 when b = 0; a second call gives the same result.
C24_DiffPctForEveryNonZero ==
    WorkloadsCompared =>
        /\ ~result.comparison.raised
        /\ \A m \in ComparedMetrics :
              /\ m[3].diff = m[1] - m[2]
              /\ m[2] # 0 => m[3].diff_pct = Frac((m[1] - m[2]) * 100, m[2])
              /\ m[2] = 0 => m[3].diff_pct = Zero
        /\ result.calls = 2 => result.before = <<result.comparison>>

DiffPctForPositive ==
    WorkloadsCompared =>
        /\ ~result.comparison.raised
        /\ \A m \in ComparedMetrics :
              /\ m[3].diff = m[1] - m[2]
              /\ m[2] > 0 => m[3].diff_pct = Frac((m[1] - m[2]) * 100, m[2])
              /\ m[2] <= 0 => m[3].diff_pct = Zero
        /\ result.calls = 2 => result.before = <<result.comparison>>

\* second call on a pair with a negative and a positive divisor
C24_Witness ==
    /\ WorkloadsCompared /\ result.calls = 2
    /\ input.mbcas.allocation_changes = 3 /\ input.vpa.allocation_changes = 2
    /\ input.mbcas.avg_usage_milli = 400 /\ input.vpa.avg_usage_milli = -400
    /\ result.comparison.allocation_changes.diff_pct = [num |-> 50, den |-> 1]
    /\ result.comparison.avg_usage.diff = 800
    /\ result.comparison.avg_usage.diff_pct = Zero

\* C24 amended: diff = a - b, diffPct = diff / b * 100 for every b > 0 and
\* 0 for every b <= 0; a second call on the same pair gives the same result
\* and no call changes either input.
C24_DiffPctForPositive == []DiffPctForPositive /\ [][input' = input]_vars

====
